---- MODULE Spec2Model ----
(***************************************************************************)
(* A model of the datamosh permutation pipeline (permutations.py): the     *)
(* Halton sequence generator, the range mapper, the sampler, the ffmpeg    *)
(* command builder and main's batch loop with the manifest writer.         *)
(*                                                                         *)
(* Python's int is unbounded and its float is an IEEE-754 binary64, so     *)
(* both are modelled exactly: an unbounded natural is a little-endian      *)
(* sequence of 15-bit limbs, a float is a 53-bit mantissa (such a natural) *)
(* with a binary exponent, and every float operation rounds to nearest,    *)
(* ties to even, as the hardware does.                                     *)
(***************************************************************************)
EXTENDS Integers, Sequences, FiniteSets, TLC

(***************************************************************************)
(* Unbounded naturals (Python int).  A natural is a sequence of limbs,     *)
(* least significant first, without leading zero limbs; zero is << >>.     *)
(***************************************************************************)
LimbBits == 15

Limb == 2 ^ LimbBits

Max(a, b) == IF a >= b THEN a ELSE b

Min(a, b) == IF a <= b THEN a ELSE b

RECURSIVE BigNorm(_)
BigNorm(a) ==
    IF a = << >> THEN << >>
    ELSE IF a[Len(a)] = 0 THEN BigNorm(SubSeq(a, 1, Len(a) - 1))
    ELSE a

RECURSIVE BigFromInt(_)
BigFromInt(n) ==
    IF n = 0 THEN << >> ELSE << n % Limb >> \o BigFromInt(n \div Limb)

RECURSIVE BigToInt(_)
BigToInt(a) ==
    IF a = << >> THEN 0 ELSE a[1] + Limb * BigToInt(Tail(a))

RECURSIVE SmallBitLen(_)
SmallBitLen(n) == IF n = 0 THEN 0 ELSE 1 + SmallBitLen(n \div 2)

BigBitLen(a) ==
    IF a = << >> THEN 0
    ELSE LimbBits * (Len(a) - 1) + SmallBitLen(a[Len(a)])

\* bit k (k >= 0, bit 0 least significant) of a
BigBit(a, k) ==
    LET j == (k \div LimbBits) + 1
    IN  IF j > Len(a) THEN 0 ELSE (a[j] \div (2 ^ (k % LimbBits))) % 2

\* TRUE iff some bit of a strictly below bit k is set
BigAnyBelow(a, k) ==
    LET j == (k \div LimbBits) + 1
    IN  \/ \E i \in 1..Min(j - 1, Len(a)) : a[i] # 0
        \/ j <= Len(a) /\ a[j] % (2 ^ (k % LimbBits)) # 0

\* a * n + carry for a small n >= 0
RECURSIVE BigMulAdd(_, _, _)
BigMulAdd(a, n, carry) ==
    IF a = << >> THEN BigFromInt(carry)
    ELSE LET t == a[1] * n + carry
         IN  << t % Limb >> \o BigMulAdd(Tail(a), n, t \div Limb)

BigMulSmall(a, n) == BigNorm(BigMulAdd(a, n, 0))

\* long division of a by a small n > 0, most significant limb first;
\* the result is [q |-> quotient limbs (same length as a), r |-> remainder]
RECURSIVE BigDivStep(_, _, _, _)
BigDivStep(a, n, k, rem) ==
    IF k = 0 THEN [q |-> << >>, r |-> rem]
    ELSE LET t    == rem * Limb + a[k]
             rest == BigDivStep(a, n, k - 1, t % n)
         IN  [q |-> Append(rest.q, t \div n), r |-> rest.r]

BigDivSmall(a, n) ==
    LET d == BigDivStep(a, n, Len(a), 0)
    IN  [q |-> BigNorm(d.q), r |-> d.r]

RECURSIVE BigAddCarry(_, _, _)
BigAddCarry(a, b, carry) ==
    IF a = << >> /\ b = << >> THEN BigFromInt(carry)
    ELSE LET x == IF a = << >> THEN 0 ELSE a[1]
             y == IF b = << >> THEN 0 ELSE b[1]
             t == x + y + carry
         IN  << t % Limb >>
             \o BigAddCarry(IF a = << >> THEN a ELSE Tail(a),
                            IF b = << >> THEN b ELSE Tail(b), t \div Limb)

BigAdd(a, b) == BigNorm(BigAddCarry(a, b, 0))

\* a * 2^s
BigShiftLeft(a, s) ==
    LET d == s \div LimbBits
        r == s % LimbBits
    IN  IF a = << >> THEN << >>
        ELSE [i \in 1..d |-> 0] \o BigMulSmall(a, 2 ^ r)

\* a \div 2^s
BigShiftRight(a, s) ==
    LET d == s \div LimbBits
        r == s % LimbBits
    IN  IF d >= Len(a) THEN << >>
        ELSE BigDivSmall(SubSeq(a, d + 1, Len(a)), 2 ^ r).q

(***************************************************************************)
(* IEEE-754 binary64 (Python float), non-negative values only.  A float is *)
(* [m |-> mantissa, e |-> exponent] and stands for m * 2^e; m is zero or   *)
(* has exactly MantBits bits.  Exponents stay far inside the binary64      *)
(* range for every input of the model, so there are no subnormals here.    *)
(***************************************************************************)
MantBits == 53

FZero == [m |-> << >>, e |-> 0]

FIsZero(x) == x.m = << >>

\* the float nearest to n * 2^e (plus a nonzero amount below the last bit of
\* n when sticky), ties to even
FRound(n, sticky, e) ==
    LET len == BigBitLen(n)
    IN  IF n = << >> THEN FZero
        ELSE IF len <= MantBits
        THEN [m |-> BigShiftLeft(n, MantBits - len), e |-> e - (MantBits - len)]
        ELSE LET s     == len - MantBits
                 q     == BigShiftRight(n, s)
                 guard == BigBit(n, s - 1) = 1
                 rest  == sticky \/ BigAnyBelow(n, s - 1)
                 up    == guard /\ (rest \/ BigBit(q, 0) = 1)
                 q2    == IF up THEN BigAdd(q, << 1 >>) ELSE q
             IN  IF BigBitLen(q2) > MantBits
                 THEN [m |-> BigShiftRight(q2, 1), e |-> e + s + 1]
                 ELSE [m |-> q2, e |-> e + s]

\* float(n) for an int 0 <= n < Limb: exact
FFromInt(n) == FRound(BigFromInt(n), FALSE, 0)

\* x / float(b) for a small int b > 0
FDivInt(x, b) ==
    LET s == SmallBitLen(b) + 2
        d == BigDivSmall(BigShiftLeft(x.m, s), b)
    IN  IF FIsZero(x) THEN FZero ELSE FRound(d.q, d.r # 0, x.e - s)

\* x * float(n) for a small int n >= 0
FMulInt(x, n) ==
    IF FIsZero(x) \/ n = 0 THEN FZero
    ELSE FRound(BigMulSmall(x.m, n), FALSE, x.e)

\* x + y
FAdd(x, y) ==
    LET hi == IF x.e >= y.e THEN x ELSE y
        lo == IF x.e >= y.e THEN y ELSE x
        d  == hi.e - lo.e
    IN  IF FIsZero(x) THEN y
        ELSE IF FIsZero(y) THEN x
        ELSE IF d <= MantBits + 2
        THEN FRound(BigAdd(BigShiftLeft(hi.m, d), lo.m), FALSE, lo.e)
        ELSE FRound(BigShiftLeft(hi.m, 2), TRUE, hi.e - 2)

\* int(x): truncation toward zero
FTrunc(x) ==
    IF FIsZero(x) THEN 0
    ELSE IF x.e >= 0 THEN BigToInt(BigShiftLeft(x.m, x.e))
    ELSE BigToInt(BigShiftRight(x.m, 0 - x.e))

\* x < 1.0, x >= 1.0 and x = 0.0
FLessThanOne(x) == FIsZero(x) \/ x.e + MantBits <= 0

(***************************************************************************)
(* permutations.py: the sequence generator and the range mapper            *)
(***************************************************************************)

\* mutant: the digit is weighted with f before f is divided by the base
halton_body_late_divide(st, base) ==
    LET f2 == FDivInt(st.f, base)
        d  == BigDivSmall(st.i, base)
    IN  [i |-> d.q, f |-> f2, result |-> FAdd(st.result, FMulInt(st.f, d.r))]

\* one pass through the body of halton_value's while loop; st holds the
\* loop's three variables i, f and result
halton_body(st, base) ==
    LET f2 == FDivInt(st.f, base)
        d  == BigDivSmall(st.i, base)
    IN  [i |-> d.q, f |-> f2, result |-> FAdd(st.result, FMulInt(f2, d.r))]

\* while i > 0: ...; return result
RECURSIVE halton_loop(_, _)
halton_loop(st, base) ==
    IF st.i = << >> THEN st.result
    ELSE halton_loop(halton_body(st, base), base)

\* halton_value(index, base); index is an unbounded natural
halton_value(index, base) ==
    halton_loop([i |-> index, f |-> FFromInt(1), result |-> FZero], base)

\* int(value * n) for an int n of either sign
TruncMul(value, n) ==
    IF n >= 0 THEN FTrunc(FMulInt(value, n))
    ELSE 0 - FTrunc(FMulInt(value, 0 - n))

\* mutant: the range is taken one too wide
scale_int_wide(value, low, high) ==
    IF low = high THEN low
    ELSE low + TruncMul(value, high - low + 2)

\* mutant: the range is run through from its upper end
scale_int_descending(value, low, high) ==
    IF low = high THEN low
    ELSE high - TruncMul(value, high - low + 1)

scale_int(value, low, high) ==
    IF low = high THEN low
    ELSE low + TruncMul(value, high - low + 1)

(***************************************************************************)
(* Python str and dict.  A str is a sequence of one-character strings, so  *)
(* that formatting and escaping are visible character by character.  A     *)
(* dict is the sequence of its << key, value >> items in insertion order.  *)
(***************************************************************************)
DigitChar == << "0", "1", "2", "3", "4", "5", "6", "7", "8", "9" >>

RECURSIVE NatToStr(_)
NatToStr(n) ==
    IF n < 10 THEN << DigitChar[n + 1] >>
    ELSE NatToStr(n \div 10) \o << DigitChar[(n % 10) + 1] >>

\* mutant: the sign is dropped
IntToStr_unsigned(n) == NatToStr(IF n < 0 THEN 0 - n ELSE n)

\* str(n) and f"{n}" for an int n
IntToStr(n) == IF n < 0 THEN << "-" >> \o NatToStr(0 - n) ELSE NatToStr(n)

\* f"{n:0<width>d}": sign first, then zeros up to the width
IntToStrPad(n, width) ==
    LET sign == IF n < 0 THEN << "-" >> ELSE << >>
        ds   == NatToStr(IF n < 0 THEN 0 - n ELSE n)
        fill == Max(0, width - Len(sign) - Len(ds))
    IN  sign \o [i \in 1..fill |-> "0"] \o ds

DictKeys(d) == [i \in 1..Len(d) |-> d[i][1]]

DictHas(d, k) == \E i \in 1..Len(d) : d[i][1] = k

\* d[k]
DictGet(d, k) == d[CHOOSE i \in 1..Len(d) : d[i][1] = k][2]

\* d[k] = v: an existing key keeps its place, a new key goes last
DictSet(d, k, v) ==
    IF DictHas(d, k)
    THEN [i \in 1..Len(d) |-> IF d[i][1] = k THEN << k, v >> ELSE d[i]]
    ELSE Append(d, << k, v >>)

\* d.update(other)
RECURSIVE DictUpdate(_, _)
DictUpdate(d, other) ==
    IF other = << >> THEN d
    ELSE DictUpdate(DictSet(d, other[1][1], other[1][2]), Tail(other))

\* os.path.join(a, b) on a POSIX system
PathJoin(a, b) ==
    IF b # << >> /\ b[1] = "/" THEN b
    ELSE IF a = << >> \/ a[Len(a)] = "/" THEN a \o b
    ELSE a \o << "/" >> \o b

(***************************************************************************)
(* permutations.py: the command builder                                    *)
(***************************************************************************)
\* mutant: the colon of the pair is left bare
deblock_param_bare(params) ==
    << "d", "e", "b", "l", "o", "c", "k", "=" >>
    \o IntToStr(DictGet(params, "deblock")) \o << ":" >>
    \o IntToStr(DictGet(params, "deblock"))

\* deblock_param: the pair a:b with its colon escaped for -x264-params
deblock_param(params) ==
    LET deblock_a == DictGet(params, "deblock")
        deblock_b == DictGet(params, "deblock")
    IN  << "d", "e", "b", "l", "o", "c", "k", "=" >>
        \o IntToStr(deblock_a) \o << "\\", ":" >> \o IntToStr(deblock_b)

build_ffmpeg_command(input_path, output_path, params) ==
    LET x264_params   ==
               << "k", "e", "y", "i", "n", "t", "=" >>
               \o IntToStr(DictGet(params, "keyint")) \o << ":" >>
            \o << "k", "e", "y", "i", "n", "t", "_", "m", "i", "n", "=" >>
               \o IntToStr(DictGet(params, "keyint_min")) \o << ":" >>
            \o << "s", "c", "e", "n", "e", "c", "u", "t", "=" >>
               \o IntToStr(DictGet(params, "scenecut")) \o << ":" >>
            \o << "b", "f", "r", "a", "m", "e", "s", "=" >>
               \o IntToStr(DictGet(params, "bframes")) \o << ":" >>
            \o << "r", "e", "f", "=" >>
               \o IntToStr(DictGet(params, "ref")) \o << ":" >>
            \o << "o", "p", "e", "n", "-", "g", "o", "p", "=" >>
               \o IntToStr(DictGet(params, "open_gop")) \o << ":" >>
            \o deblock_param(params)
        noise_filter  ==
               << "n", "o", "i", "s", "e", "=", "a", "m", "o", "u", "n", "t", "=" >>
               \o IntToStr(DictGet(params, "noise"))
               \o << "*", "n", "o", "t", "(", "k", "e", "y", ")" >>
    IN  << << "f", "f", "m", "p", "e", "g" >>,
           << "-", "y" >>,
           << "-", "i" >>,
           input_path,
           << "-", "c", ":", "v" >>,
           << "l", "i", "b", "x", "2", "6", "4" >>,
           << "-", "x", "2", "6", "4", "-", "p", "a", "r", "a", "m", "s" >>,
           x264_params,
           << "-", "c", "r", "f" >>,
           IntToStr(DictGet(params, "crf")),
           << "-", "b", "s", "f", ":", "v" >>,
           noise_filter,
           << "-", "p", "i", "x", "_", "f", "m", "t" >>,
           << "y", "u", "v", "4", "2", "0", "p" >>,
           output_path >>

(***************************************************************************)
(* permutations.py: main's configuration and the sampler                   *)
(***************************************************************************)
\* os.path.dirname(os.path.abspath(__file__)): wherever the script is installed
script_dir == << "/", "a", "p", "p" >>

input_path == PathJoin(PathJoin(script_dir, << "v", "i", "d", "s" >>),
                       << "b", "b", "a", "l", "l", ".", "m", "o", "v" >>)

out_dir == PathJoin(script_dir,
                    << "p", "e", "r", "m", "u", "t", "a", "t", "i", "o", "n", "s" >>)

ranges == [keyint   |-> << 5, 80 >>,
           scenecut |-> << 0, 40 >>,
           bframes  |-> << 0, 8 >>,
           ref      |-> << 1, 6 >>,
           open_gop |-> << 0, 1 >>,
           crf      |-> << 16, 32 >>,
           deblock  |-> << 0 - 4, 4 >>,
           noise    |-> << 1000, 8000 >>]

primes == << 2, 3, 5, 7, 11, 13, 17, 19 >>

noise_base == 23

\* mutant: keyint_min is mapped into keyint's own range
keyint_min_high_fixed(keyint) == ranges.keyint[2]

\* the upper bound of keyint_min's range, given the keyint already sampled
keyint_min_high(keyint) == keyint

\* the parameter dict main builds for sample index idx (an unbounded natural)
sample_params(idx) ==
    LET keyint     == scale_int(halton_value(idx, primes[1]),
                                ranges.keyint[1], ranges.keyint[2])
        keyint_min == scale_int(halton_value(idx, primes[2]),
                                1, keyint_min_high(keyint))
    IN  << << "keyint", keyint >>,
           << "keyint_min", keyint_min >>,
           << "scenecut", scale_int(halton_value(idx, primes[3]),
                                    ranges.scenecut[1], ranges.scenecut[2]) >>,
           << "bframes", scale_int(halton_value(idx, primes[4]),
                                   ranges.bframes[1], ranges.bframes[2]) >>,
           << "ref", scale_int(halton_value(idx, primes[5]),
                               ranges.ref[1], ranges.ref[2]) >>,
           << "open_gop", scale_int(halton_value(idx, primes[6]),
                                    ranges.open_gop[1], ranges.open_gop[2]) >>,
           << "crf", scale_int(halton_value(idx, primes[7]),
                               ranges.crf[1], ranges.crf[2]) >>,
           << "deblock", scale_int(halton_value(idx, primes[8]),
                                   ranges.deblock[1], ranges.deblock[2]) >>,
           << "noise", scale_int(halton_value(idx, noise_base),
                                 ranges.noise[1], ranges.noise[2]) >> >>

\* mutant: the index is cut to the three digits of the padding width
output_name_three_digits(idx) ==
    << "b", "b", "a", "l", "l", "_", "p", "e", "r", "m", "_" >>
    \o IntToStrPad(idx % 1000, 3) \o << ".", "m", "p", "4" >>

\* f"bball_perm_{idx:03d}.mp4"
output_name(idx) ==
    << "b", "b", "a", "l", "l", "_", "p", "e", "r", "m", "_" >>
    \o IntToStrPad(idx, 3) \o << ".", "m", "p", "4" >>

\* mutant: the record counts samples from zero
manifest_record_from_zero(idx, params) ==
    DictUpdate(<< << "index", idx - 1 >>, << "output", output_name(idx) >> >>, params)

\* mutant: the record names the output without the zero padding
manifest_record_unpadded(idx, params) ==
    DictUpdate(<< << "index", idx >>,
                  << "output", << "b", "b", "a", "l", "l", "_", "p", "e", "r",
                                  "m", "_" >> \o IntToStr(idx)
                               \o << ".", "m", "p", "4" >> >> >>, params)

\* mutant: the parameters are put into the record before index and output
manifest_record_params_first(idx, params) ==
    DictUpdate(params, << << "index", idx >>, << "output", output_name(idx) >> >>)

\* the manifest record of a rendered sample
manifest_record(idx, params) ==
    DictUpdate(<< << "index", idx >>, << "output", output_name(idx) >> >>, params)

(***************************************************************************)
(* Bounds of the model                                                     *)
(***************************************************************************)
\* the largest count given on the command line
MaxCount == 3

\* how many times the script is run, one run after the other
MaxRuns == 2

\* the count arguments tried: non-positive ones and 1..MaxCount
CountArgs == {0 - 5, 0 - 1, 0} \cup (1..MaxCount)

\* the exit statuses of the encoder: success, an error, killed by a signal
ExitCodes == {0, 1, 0 - 9}

\* what the encoder wrote on its standard error
StderrTexts == {"", "x264 [error]: invalid argument"}

(***************************************************************************)
(* State.  An optional value is a sequence of length 0 or 1.               *)
(***************************************************************************)
VARIABLES
    pc,            \* where main is: "idle", "loop", "encoding", "exited"
    count,         \* args.count
    idx,           \* the loop variable of main
    params_log,    \* the records collected so far
    proc,          \* the encoder processes now running: [index, cmd]
    invocations,   \* history of this run: the encoder invocations started,
                   \* each with the exit status and stderr text it ended with
    ret,           \* what main returned, once it returned
    stderr,        \* what this run printed on sys.stderr
    stdout,        \* what this run printed on sys.stdout
    writes,        \* history: how many times this run wrote params.json
    runs,          \* the number of the current run
    input_exists,  \* file system: vids/bball.mov exists
    out_dir_exists,\* file system: the directory permutations/ exists
    manifest,      \* file system: the content of permutations/params.json
    fs_at_start,   \* history: the file system as this run found it
    fn,            \* function laboratory: the function applied last
    args,          \* function laboratory: its arguments
    res,           \* function laboratory: its result
    is_processing, \* front end: self.is_processing
    videos,        \* front end: self.videos, the names listed at start-up
    selected_video,\* front end: the name chosen in the combo box
    vids_files,    \* front end: the names that (still) exist in vids/
    out_files,     \* front end: the paths that exist in out/
    workers,       \* front end: the worker threads started: [kind, pc,
                   \* video, todo]
    encoders,      \* front end: the encoder processes now running
    requests,      \* front end, history: the clicks on Preview and Direct
                   \* Batch, each with its outcome
    front_log,     \* front end: the failure lines self.log was given
    video_pairs,   \* viewer: the names of the pairs found
    current_pair_index, \* viewer: the pair shown
    is_playing,    \* viewer: frames are advancing
    keys           \* viewer, history: the keys pressed, each with the index
                   \* before and after it

mainVars == << pc, count, idx, params_log, proc, invocations, ret, stderr,
               stdout, writes, runs, input_exists, out_dir_exists, manifest,
               fs_at_start >>

labVars == << fn, args, res >>

frontVars == << is_processing, videos, selected_video, vids_files, out_files,
                workers, encoders, requests, front_log >>

viewVars == << video_pairs, current_pair_index, is_playing, keys >>

guiVars == << frontVars, viewVars >>

vars == << mainVars, labVars, guiVars >>

\* neither the front end nor the viewer is running
GuiIdle ==
    /\ is_processing = FALSE /\ videos = << >> /\ selected_video = << >>
    /\ vids_files = {} /\ out_files = {} /\ workers = << >>
    /\ encoders = << >> /\ requests = << >> /\ front_log = << >>
    /\ video_pairs = << >> /\ current_pair_index = 0 /\ is_playing = FALSE
    /\ keys = << >>

LabIdle == fn = "none" /\ args = << >> /\ res = << >>

MainIdle ==
    /\ pc = "idle" /\ count = 0 /\ idx = 0
    /\ params_log = << >> /\ proc = << >> /\ invocations = << >>
    /\ ret = << >> /\ stderr = << >> /\ stdout = << >> /\ writes = 0

FileSystem(dir, file) == [out_dir_exists |-> dir, manifest |-> file]

(***************************************************************************)
(* main (permutations.py).  The file system is as the run finds it: the    *)
(* input video may be missing, the output directory may not exist yet.     *)
(* The encoder is the environment: once started it ends with some exit     *)
(* status and some text on its standard error.  The calls that start it    *)
(* and that create the directory and write the manifest do not raise.      *)
(***************************************************************************)
Init ==
    /\ MainIdle
    /\ runs = 1
    /\ input_exists \in BOOLEAN
    /\ out_dir_exists \in BOOLEAN
    /\ manifest = << >>
    /\ fs_at_start = FileSystem(out_dir_exists, manifest)
    /\ LabIdle
    /\ GuiIdle

\* mutant: zero passes for a count
usage_error_negative_only(c) == c < 0

\* args.count <= 0
usage_error(c) == c <= 0

\* lines 75-105: the arguments, the two checks, the set-up of the loop
Start(c) ==
    /\ pc = "idle"
    /\ count' = c
    /\ IF usage_error(c)
       THEN /\ stderr' = Append(stderr, [kind |-> "usage"])
            /\ ret' = << 1 >>
            /\ pc' = "exited"
            /\ UNCHANGED << idx, out_dir_exists >>
       ELSE /\ out_dir_exists' = TRUE
            /\ IF ~input_exists
               THEN /\ stderr' = Append(stderr, [kind |-> "input_not_found",
                                                 path |-> input_path])
                    /\ ret' = << 1 >>
                    /\ pc' = "exited"
                    /\ UNCHANGED idx
               ELSE /\ idx' = 1
                    /\ pc' = "loop"
                    /\ UNCHANGED << stderr, ret >>
    /\ UNCHANGED << params_log, proc, invocations, stdout, writes, runs,
                    input_exists, manifest, fs_at_start >>
    /\ UNCHANGED << labVars, guiVars >>

\* the command main runs for sample i (lines 109-126)
render_cmd(i) ==
    build_ffmpeg_command(input_path, PathJoin(out_dir, output_name(i)),
                         sample_params(BigFromInt(i)))

\* lines 107-128: the next sample's parameters and command; the encoder starts
Invoke ==
    /\ pc = "loop"
    /\ idx <= count
    /\ proc' = Append(proc, [index |-> idx, cmd |-> render_cmd(idx)])
    /\ invocations' = Append(invocations,
           [index |-> idx, cmd |-> render_cmd(idx), rc |-> << >>, stderr |-> ""])
    /\ pc' = "encoding"
    /\ UNCHANGED << count, idx, params_log, ret, stderr, stdout, writes, runs,
                    input_exists, out_dir_exists, manifest, fs_at_start >>
    /\ UNCHANGED << labVars, guiVars >>

\* mutant: only a positive exit status counts as a failure
encoder_failed_positive_only(returncode) == returncode > 0

\* result.returncode != 0
encoder_failed(returncode) == returncode # 0

\* print(f"ffmpeg failed on permutation {idx}:\n{result.stderr}", file=sys.stderr)
failure_report(i, text) == [kind |-> "ffmpeg_failed", idx |-> i, stderr |-> text]

\* mutant: the loop skips a sample
next_index_skipping(i) == i + 2

\* mutant: the loop takes the same sample again
next_index_same(i) == i

\* the loop variable after sample i: for idx in range(1, args.count + 1)
next_index(i) == i + 1

\* lines 128-135: subprocess.run returns; the failure exit or the record
EncoderExit(returncode, text) ==
    /\ pc = "encoding"
    /\ proc' = << >>
    /\ invocations' = [invocations EXCEPT ![Len(invocations)] =
                          [@ EXCEPT !.rc = << returncode >>, !.stderr = text]]
    /\ IF encoder_failed(returncode)
       THEN /\ stderr' = Append(stderr, failure_report(idx, text))
            /\ ret' = << 1 >>
            /\ pc' = "exited"
            /\ UNCHANGED << idx, params_log >>
       ELSE /\ params_log' = Append(params_log,
                   manifest_record(idx, sample_params(BigFromInt(idx))))
            /\ idx' = next_index(idx)
            /\ pc' = "loop"
            /\ UNCHANGED << stderr, ret >>
    /\ UNCHANGED << count, stdout, writes, runs, input_exists,
                    out_dir_exists, manifest, fs_at_start >>
    /\ UNCHANGED << labVars, guiVars >>

\* line 139: json.dump writes an int as its decimal digits
json_dump_int(n) == IntToStr(n)

\* a manifest opened for appending would keep the records of earlier runs
write_manifest_appending(old, log) ==
    IF old = << >> THEN log ELSE old[1] \o log

\* lines 138-139: open(manifest_path, "w") truncates the file, json.dump
\* writes the list of records
write_manifest(old, log) == log

\* lines 137-142: the loop is over; the manifest is written, main returns 0
Finish ==
    /\ pc = "loop"
    /\ idx > count
    /\ manifest' = << write_manifest(manifest, params_log) >>
    /\ writes' = writes + 1
    /\ stdout' = Append(stdout, [kind |-> "generated", count |-> count,
                                 dir |-> out_dir])
    /\ ret' = << 0 >>
    /\ pc' = "exited"
    /\ UNCHANGED << count, idx, params_log, proc, invocations, stderr, runs,
                    input_exists, out_dir_exists, fs_at_start >>
    /\ UNCHANGED << labVars, guiVars >>

\* the script is run again: a new process finds the files the last one left
Rerun ==
    /\ pc = "exited"
    /\ runs < MaxRuns
    /\ runs' = runs + 1
    /\ pc' = "idle" /\ count' = 0 /\ idx' = 0
    /\ params_log' = << >> /\ proc' = << >> /\ invocations' = << >>
    /\ ret' = << >> /\ stderr' = << >> /\ stdout' = << >> /\ writes' = 0
    /\ fs_at_start' = FileSystem(out_dir_exists, manifest)
    /\ UNCHANGED << input_exists, out_dir_exists, manifest >>
    /\ UNCHANGED << labVars, guiVars >>

Next ==
    \/ \E c \in CountArgs : Start(c)
    \/ Invoke
    \/ \E rc \in ExitCodes, text \in StderrTexts : EncoderExit(rc, text)
    \/ Finish
    \/ Rerun

Spec == Init /\ [][Next]_vars

(***************************************************************************)
(* Claims about main                                                       *)
(***************************************************************************)
\* the invocations of this run that ended with a non-zero exit status
FailedInvocations ==
    {k \in 1..Len(invocations) :
        invocations[k].rc # << >> /\ invocations[k].rc[1] # 0}

\* C2: once the encoder invocation for sample i has returned a non-zero exit
\* status, no invocation for a later sample is started, params.json is not
\* written and still holds what the run found, the failing index and the
\* captured stderr text are what is printed on stderr, and main has returned 1.
C2_FailureAbortsBatch ==
    \A k \in FailedInvocations :
        /\ k = Len(invocations)
        /\ proc = << >>
        /\ pc = "exited"
        /\ ret = << 1 >>
        /\ writes = 0
        /\ manifest = fs_at_start.manifest
        /\ stderr = << [kind |-> "ffmpeg_failed", idx |-> invocations[k].index,
                        stderr |-> invocations[k].stderr] >>
        /\ stdout = << >>

\* sample 2 of 3 failed in a second run, which found the first run's manifest
C2_Witness ==
    /\ count = 3
    /\ FailedInvocations = {2}
    /\ invocations[2].index = 2
    /\ invocations[2].rc = << 0 - 9 >>
    /\ manifest # << >>

\* C3: params.json is written at most once in a run, and only by a run whose
\* count invocations all ended with status 0 (a run that returned 0 has
\* written it exactly once); what is written holds count records, the k-th
\* with index k.
C3_ManifestOnCompletion ==
    /\ writes <= 1
    /\ (ret = << 0 >>) <=> (writes = 1)
    /\ writes = 1 =>
          /\ pc = "exited"
          /\ Len(invocations) = count
          /\ \A k \in 1..count : invocations[k].rc = << 0 >>
          /\ Len(manifest) = 1
          /\ Len(manifest[1]) = count
          /\ \A k \in 1..count :
                /\ DictGet(manifest[1][k], "index") = k
                /\ invocations[k].index = k

\* a completed batch of three, and one of a single sample
C3_Witness ==
    /\ writes = 1
    /\ count = 3
    /\ Len(manifest[1]) = 3
    /\ DictGet(manifest[1][3], "index") = 3

\* C4: the k-th invocation of a run is the one for index k, it is started
\* only when every earlier one has ended with status 0, and at most one
\* encoder process is running at any time (the last one started).
C4_SequentialInvocations ==
    /\ Len(proc) <= 1
    /\ Len(invocations) <= Max(count, 0)
    /\ \A k \in 1..Len(invocations) :
          /\ invocations[k].index = k
          /\ k < Len(invocations) => invocations[k].rc = << 0 >>
    /\ proc # << >> =>
          /\ pc = "encoding"
          /\ proc[1].index = Len(invocations)
          /\ invocations[Len(invocations)].rc = << >>
    /\ proc = << >> =>
          \A k \in 1..Len(invocations) : invocations[k].rc # << >>

\* the third encoder is running after the first two succeeded
C4_Witness ==
    /\ Len(invocations) = 3
    /\ proc # << >>
    /\ proc[1].index = 3
    /\ invocations[2].rc = << 0 >>

\* C9: a run given a count <= 0 prints the usage error on stderr and returns
\* non-zero; it starts no encoder, leaves the output directory as it found
\* it and writes no manifest.
C9_UsageError ==
    (pc # "idle" /\ count <= 0) =>
        /\ pc = "exited"
        /\ ret # << >> /\ ret[1] # 0
        /\ stderr = << [kind |-> "usage"] >>
        /\ stdout = << >>
        /\ invocations = << >> /\ proc = << >>
        /\ writes = 0
        /\ FileSystem(out_dir_exists, manifest) = fs_at_start

\* count = 0 and count = -5, with no output directory before or after
C9_Witness ==
    /\ pc = "exited"
    /\ count \in {0, 0 - 5}
    /\ ~out_dir_exists
    /\ stderr = << [kind |-> "usage"] >>

\* C10: a run given a count > 0 that finds no input video reports it and
\* returns non-zero; it starts no encoder, writes no manifest and leaves the
\* file system as it found it: the output directory is not created.
C10_MissingInputNoSideEffects ==
    (pc # "idle" /\ count > 0 /\ ~input_exists) =>
        /\ pc = "exited"
        /\ ret # << >> /\ ret[1] # 0
        /\ stderr = << [kind |-> "input_not_found", path |-> input_path] >>
        /\ invocations = << >> /\ proc = << >>
        /\ writes = 0
        /\ FileSystem(out_dir_exists, manifest) = fs_at_start

\* C11: a run that completes a batch leaves the manifest an earlier run
\* of the same count left: whatever the earlier run left behind (its
\* manifest, the output directory), the records written depend on count
\* alone, the sampler giving the same tuple for the same index in both runs.
C11_SameCountSameManifest ==
    (writes = 1 /\ fs_at_start.manifest # << >>
                /\ Len(fs_at_start.manifest[1]) = count) =>
        manifest = fs_at_start.manifest

\* a second run of count 2 has completed over the manifest of a first run
\* of count 2
C11_Witness ==
    /\ runs = 2
    /\ writes = 1
    /\ count = 2
    /\ fs_at_start.manifest # << >>
    /\ Len(fs_at_start.manifest[1]) = 2
    /\ manifest = fs_at_start.manifest

\* the nine parameter fields of a manifest record as a later process reads
\* them: each from the decimal digits json.dump wrote for it
ParamFields ==
    << "keyint", "keyint_min", "scenecut", "bframes", "ref", "open_gop",
       "crf", "deblock", "noise" >>

RECURSIVE ReadNat(_)
ReadNat(s) ==
    IF s = << >> THEN 0
    ELSE 10 * ReadNat(SubSeq(s, 1, Len(s) - 1))
         + (CHOOSE d \in 0..9 : DigitChar[d + 1] = s[Len(s)])

ReadInt(s) ==
    IF s[1] = "-" THEN 0 - ReadNat(SubSeq(s, 2, Len(s))) ELSE ReadNat(s)

ReadParams(rec) ==
    [j \in 1..Len(ParamFields) |->
        << ParamFields[j], ReadInt(json_dump_int(DictGet(rec, ParamFields[j]))) >>]

\* the command a later process rebuilds from a manifest record
Rebuilt(rec) ==
    build_ffmpeg_command(input_path, PathJoin(out_dir, DictGet(rec, "output")),
                         ReadParams(rec))

\* C13: for every record of the manifest a run has written, the command
\* rebuilt from the input path, the output directory joined with the
\* record's output name and the record's nine parameter fields is the
\* argument list the run passed to the encoder for the record's index; the
\* same holds of the records collected while the batch is still running.
C13_ManifestRebuildsCommand ==
    /\ \A k \in 1..Len(params_log) :
          LET rec == params_log[k]
              i   == DictGet(rec, "index")
          IN  /\ i \in 1..Len(invocations)
              /\ invocations[i].index = i
              /\ Rebuilt(rec) = invocations[i].cmd
    /\ writes = 1 =>
          \A k \in 1..Len(manifest[1]) :
             LET rec == manifest[1][k]
                 i   == DictGet(rec, "index")
             IN  /\ i \in 1..Len(invocations)
                 /\ invocations[i].index = i
                 /\ Rebuilt(rec) = invocations[i].cmd

\* a manifest of three records, the third rebuilding the third invocation
C13_Witness ==
    /\ writes = 1
    /\ Len(manifest[1]) = 3
    /\ Len(invocations) = 3
    /\ DictGet(manifest[1][3], "output")
          = << "b", "b", "a", "l", "l", "_", "p", "e", "r", "m", "_",
               "0", "0", "3", ".", "m", "p", "4" >>
    /\ Rebuilt(manifest[1][3]) = invocations[3].cmd

\* the field order of a manifest record
RecordFields == << "index", "output" >> \o ParamFields

\* C15: every record a run collects, and every record of the manifest on
\* disk (written by this run or left by an earlier one), has the fields
\* index, output, keyint, keyint_min, scenecut, bframes, ref, open_gop, crf,
\* deblock, noise in that order.
C15_RecordFieldOrder ==
    /\ \A k \in 1..Len(params_log) : DictKeys(params_log[k]) = RecordFields
    /\ manifest # << >> =>
          \A k \in 1..Len(manifest[1]) : DictKeys(manifest[1][k]) = RecordFields

\* a second run has written two records over a manifest of three
C15_Witness ==
    /\ runs = 2
    /\ writes = 1
    /\ Len(fs_at_start.manifest) = 1
    /\ Len(fs_at_start.manifest[1]) = 3
    /\ Len(manifest[1]) = 2
    /\ DictKeys(manifest[1][2]) = RecordFields
    /\ DictKeys(fs_at_start.manifest[1][3]) = RecordFields

\* a batch: a run given a count > 0 that found its input
BatchStarted == pc # "idle" /\ count > 0 /\ input_exists

\* the terminal states of a batch
Completed ==
    /\ pc = "exited"
    /\ Len(invocations) = count
    /\ \A k \in 1..count : invocations[k].rc = << 0 >>

Failed(i) ==
    /\ pc = "exited"
    /\ Len(invocations) = i
    /\ invocations[i].rc # << >> /\ invocations[i].rc[1] # 0
    /\ \A k \in 1..(i - 1) : invocations[k].rc = << 0 >>

TerminalStates ==
    (IF Completed THEN {0} ELSE {}) \cup {i \in 1..count : Failed(i)}

\* the steps main still has to take at most: two for every sample not yet
\* rendered (start the encoder, take its exit status) and the end of the loop
StepsLeft ==
    IF pc = "exited" THEN 0
    ELSE 2 * (count + 1 - idx) + (IF pc = "loop" THEN 2 ELSE 1)

\* C16: a batch (count N > 0, input present) whose encoder invocations each
\* end reaches the end of main: until then main is in the loop or waiting
\* for the one encoder it started, and every step it takes lowers the
\* number of steps left, which is never negative.  At the end the batch is
\* in exactly one of the N + 1 terminal states Completed (all N invocations
\* returned 0) and Failed(i) (invocation i is the first and only one that
\* returned non-zero), main has returned 0 exactly when the state is
\* Completed, and from a Failed state the process takes no further step
\* (the only step is a new run of the script).
C16_BatchTerminates ==
    /\ [](BatchStarted /\ pc = "exited" =>
            /\ Cardinality(TerminalStates) = 1
            /\ ret # << >>
            /\ (ret = << 0 >>) <=> Completed)
    /\ [](BatchStarted /\ pc # "exited" =>
            /\ TerminalStates = {} /\ ret = << >>
            /\ pc \in {"loop", "encoding"}
            /\ (pc = "encoding") <=> (proc # << >>)
            /\ StepsLeft > 0)
    /\ [][(BatchStarted /\ pc # "exited") => StepsLeft' < StepsLeft]_vars
    /\ [][(BatchStarted /\ \E i \in 1..count : Failed(i)) => runs' = runs + 1]_vars

\* a batch of three has ended in Failed(2); main returned 1
C16_Witness ==
    /\ BatchStarted
    /\ count = 3
    /\ TerminalStates = {2}
    /\ ret = << 1 >>

(***************************************************************************)
(* The function laboratory: halton_value, scale_int, the sampler and the   *)
(* command builder applied to inputs drawn from bounded sets.  Besides the *)
(* small indices a batch runs through, the indices include, for a base b,  *)
(* those whose expansion is k digits b - 1 (b^k - 1), where the sequence   *)
(* comes closest to 1.                                                     *)
(***************************************************************************)
\* the small indices are 0..MaxIndex
MaxIndex == 12

\* the longest expansion tried, in digits
MaxDigits == 55

\* the bases are 2..MaxBase
MaxBase == 23

\* scale_int's low is within -MaxLow..MaxLow, high within low..low+MaxWidth
MaxLow == 2

MaxWidth == 4

\* the command builder's deblock is within -MaxDeblock..MaxDeblock
MaxDeblock == 11

\* the largest index whose values are compared in pairs
MaxPairIndex == 6

\* b^k - 1: k digits b - 1 in base b
RECURSIVE TopDigits(_, _)
TopDigits(b, k) ==
    IF k = 0 THEN << >>
    ELSE LET rest == TopDigits(b, k - 1)
         IN  IF rest = << >> THEN << b - 1 >>
             ELSE BigNorm(BigMulAdd(rest, b, b - 1))

Bases == 2..MaxBase

HaltonIndexes(base) ==
    {BigFromInt(i) : i \in 0..MaxIndex}
    \cup {TopDigits(base, k) : k \in 1..MaxDigits}

\* the largest float below 1.0
FPredOne == [m |-> TopDigits(2, MantBits), e |-> 0 - MantBits]

ScaleValues ==
    {halton_value(BigFromInt(i), b) : i \in 0..MaxIndex, b \in {2, 3, 10}}
    \cup {FPredOne, FFromInt(1)}

ScaleRanges ==
    {<< l, l + w >> : l \in (0 - MaxLow)..MaxLow, w \in 0..MaxWidth}
    \cup {ranges[k] : k \in DOMAIN ranges}

SampleIndexes ==
    {BigFromInt(i) : i \in 1..MaxIndex}
    \cup {TopDigits(primes[j], k) : j \in 1..2, k \in 1..MaxDigits}

BuildParams ==
    {DictSet(sample_params(BigFromInt(i)), "deblock", d) :
        i \in 1..MaxIndex, d \in (0 - MaxDeblock)..MaxDeblock}

\* the paths main passes (lines 84, 125) and a relative pair with a colon
\* and a space in it
BuildPaths ==
    {<< input_path, PathJoin(out_dir, output_name(i)) >> : i \in {1, 1000}}
    \cup {<< << "a", " ", "b", ".", "m", "p", "4" >>,
             << "o", ":", "1", ".", "m", "p", "4" >> >>}

LabInit ==
    /\ MainIdle
    /\ runs = 1
    /\ input_exists = TRUE
    /\ out_dir_exists = FALSE
    /\ manifest = << >>
    /\ fs_at_start = FileSystem(out_dir_exists, manifest)
    /\ LabIdle
    /\ GuiIdle

Return ==
    /\ fn # "none"
    /\ fn' = "none" /\ args' = << >> /\ res' = << >>
    /\ UNCHANGED << mainVars, guiVars >>

CallHalton(index, base) ==
    /\ fn = "none"
    /\ fn' = "halton_value"
    /\ args' = << index, base >>
    /\ res' = << halton_value(index, base) >>
    /\ UNCHANGED << mainVars, guiVars >>

NextHalton ==
    \/ \E base \in Bases : \E index \in HaltonIndexes(base) :
          CallHalton(index, base)
    \/ Return

SpecHalton == LabInit /\ [][NextHalton]_vars

\* the first base^k values of a base are taken for base^k <= MaxBlock,
\* k <= MaxPower
MaxBlock == 16

MaxPower == 4

RECURSIVE Power(_, _)
Power(b, k) == IF k = 0 THEN 1 ELSE b * Power(b, k - 1)

HaltonBlocks ==
    {bk \in (2..MaxBlock) \X (1..MaxPower) : Power(bk[1], bk[2]) <= MaxBlock}

\* halton_value called for two indices of the block 0 .. base^k - 1
CallHaltonBlock(base, k, i, j) ==
    /\ fn = "none"
    /\ fn' = "halton_value, halton_value"
    /\ args' = << base, k, i, j >>
    /\ res' = << halton_value(BigFromInt(i), base),
                 halton_value(BigFromInt(j), base) >>
    /\ UNCHANGED << mainVars, guiVars >>

NextHaltonBlock ==
    \/ \E bk \in HaltonBlocks :
          \E i, j \in 0..(Power(bk[1], bk[2]) - 1) :
             CallHaltonBlock(bk[1], bk[2], i, j)
    \/ Return

SpecHaltonBlock == LabInit /\ [][NextHaltonBlock]_vars

CallScale(value, low, high) ==
    /\ fn = "none"
    /\ fn' = "scale_int"
    /\ args' = << value, low, high >>
    /\ res' = << scale_int(value, low, high) >>
    /\ UNCHANGED << mainVars, guiVars >>

NextScale ==
    \/ \E value \in ScaleValues, r \in ScaleRanges : CallScale(value, r[1], r[2])
    \/ Return

SpecScale == LabInit /\ [][NextScale]_vars

\* scale_int called on two values for the same range: the values of the
\* first indices in bases 2 and 3 and the largest float below 1, the ranges
\* from 0 and the sampler's
PairValues ==
    {halton_value(BigFromInt(i), b) : i \in 0..MaxPairIndex, b \in {2, 3}}
    \cup {FPredOne}

PairRanges ==
    {<< 0, w >> : w \in 1..MaxWidth} \cup {ranges[k] : k \in DOMAIN ranges}

CallScalePair(v1, v2, low, high) ==
    /\ fn = "none"
    /\ fn' = "scale_int_pair"
    /\ args' = << v1, v2, low, high >>
    /\ res' = << scale_int(v1, low, high), scale_int(v2, low, high) >>
    /\ UNCHANGED << mainVars, guiVars >>

NextScalePair ==
    \/ /\ fn = "none"
       /\ \E v1 \in PairValues, v2 \in PairValues, r \in PairRanges :
             CallScalePair(v1, v2, r[1], r[2])
    \/ Return

SpecScalePair == LabInit /\ [][NextScalePair]_vars

CallSample(index) ==
    /\ fn = "none"
    /\ fn' = "sample_params"
    /\ args' = << index >>
    /\ res' = << sample_params(index) >>
    /\ UNCHANGED << mainVars, guiVars >>

NextSample ==
    \/ \E index \in SampleIndexes : CallSample(index)
    \/ Return

SpecSample == LabInit /\ [][NextSample]_vars

CallBuild(in, out, params) ==
    /\ fn = "none"
    /\ fn' = "build_ffmpeg_command"
    /\ args' = << in, out, params >>
    /\ res' = << build_ffmpeg_command(in, out, params) >>
    /\ UNCHANGED << mainVars, guiVars >>

NextBuild ==
    \/ \E params \in BuildParams, io \in BuildPaths :
          CallBuild(io[1], io[2], params)
    \/ Return

SpecBuild == LabInit /\ [][NextBuild]_vars

\* lines 124-125 for two samples of one batch: the small indices and the
\* ones around the padding width
NameIndexes == (1..MaxIndex) \cup {99, 100, 999, 1000, 1001, 1999, 10001}

output_path(i) == PathJoin(out_dir, output_name(i))

CallName(i, j) ==
    /\ fn = "none"
    /\ fn' = "output_name"
    /\ args' = << i, j >>
    /\ res' = << output_path(i), output_path(j) >>
    /\ UNCHANGED << mainVars, guiVars >>

NextName ==
    \/ \E i \in NameIndexes, j \in NameIndexes : CallName(i, j)
    \/ Return

SpecName == LabInit /\ [][NextName]_vars

(***************************************************************************)
(* mod.py, interface.py, view.py: the name of a single run's output.       *)
(***************************************************************************)
UpperCase == << "A", "B", "C", "D", "E", "F", "G", "H", "I", "J", "K", "L",
               "M", "N", "O", "P", "Q", "R", "S", "T", "U", "V", "W", "X",
               "Y", "Z" >>

LowerCase == << "a", "b", "c", "d", "e", "f", "g", "h", "i", "j", "k", "l",
               "m", "n", "o", "p", "q", "r", "s", "t", "u", "v", "w", "x",
               "y", "z" >>

\* str.lower()
str_lower(s) ==
    [i \in 1..Len(s) |->
        IF \E k \in 1..Len(UpperCase) : UpperCase[k] = s[i]
        THEN LowerCase[CHOOSE k \in 1..Len(UpperCase) : UpperCase[k] = s[i]]
        ELSE s[i]]

\* str.endswith(t)
str_endswith(s, t) ==
    Len(s) >= Len(t) /\ SubSeq(s, Len(s) - Len(t) + 1, Len(s)) = t

\* s.split('.')[0]: what stands before the first dot
str_split_first(s) ==
    LET dots == {i \in 1..Len(s) : s[i] = "."}
    IN  IF dots = {} THEN s
        ELSE SubSeq(s, 1, (CHOOSE i \in dots : \A j \in dots : i <= j) - 1)

\* os.path.basename(p)
basename(p) ==
    LET seps == {i \in 1..Len(p) : p[i] = "/"}
    IN  IF seps = {} THEN p
        ELSE SubSeq(p, (CHOOSE i \in seps : \A j \in seps : j <= i) + 1, Len(p))

\* os.path.splitext(p)[0]: p without the extension that starts at its last
\* dot; a dot that has only dots between it and the start of the file name
\* starts no extension
splitext_root(p) ==
    LET seps  == {i \in 1..Len(p) : p[i] = "/"}
        first == IF seps = {} THEN 1
                 ELSE (CHOOSE i \in seps : \A j \in seps : j <= i) + 1
        dots  == {i \in first..Len(p) : p[i] = "."}
        dot   == CHOOSE i \in dots : \A j \in dots : j <= i
    IN  IF dots = {} THEN p
        ELSE IF \A i \in first..(dot - 1) : p[i] = "." THEN p
        ELSE SubSeq(p, 1, dot - 1)

corrupted_suffix ==
    << "_", "c", "o", "r", "r", "u", "p", "t", "e", "d", ".", "m", "p", "4" >>

\* mod.py line 17: the extensions of the files the script renders
video_extensions ==
    << << ".", "m", "p", "4" >>, << ".", "m", "o", "v" >>,
       << ".", "a", "v", "i" >>, << ".", "m", "k", "v" >>,
       << ".", "m", "4", "v" >>, << ".", "w", "e", "b", "m" >> >>

\* mod.py line 22: the files of vids/ the script renders
mod_accepts(video) ==
    \E k \in 1..Len(video_extensions) :
        str_endswith(str_lower(video), video_extensions[k])

\* mod.py lines 25-26: the path the single-run script writes
mod_output_path(video) ==
    << "o", "u", "t", "/" >> \o str_split_first(video) \o corrupted_suffix

\* interface.py lines 244-247
get_output_path(video_name) ==
    PathJoin(PathJoin(script_dir, << "o", "u", "t" >>),
             splitext_root(video_name) \o corrupted_suffix)

\* view.py lines 44-45: the path the viewer looks up for an original
corrupted_path(orig_path) ==
    << "o", "u", "t", "/" >> \o splitext_root(basename(orig_path))
    \o corrupted_suffix

\* the file names tried: stems of up to MaxStemLen characters with dots
\* anywhere, with an extension in lower or upper case
MaxStemLen == 3

RECURSIVE Stems(_)
Stems(n) ==
    IF n = 0 THEN {<< >>}
    ELSE LET shorter == Stems(n - 1)
         IN  shorter \cup {Append(t, c) : t \in shorter, c \in {"a", "b", "."}}

VideoNames ==
    {t \o x : t \in Stems(MaxStemLen) \ {<< >>},
              x \in {<< ".", "m", "p", "4" >>, << ".", "m", "o", "v" >>,
                     << ".", "M", "P", "4" >>}}

CallNaming(video) ==
    /\ fn = "none"
    /\ fn' = "single_run_naming"
    /\ args' = << video >>
    /\ res' = << mod_output_path(video), get_output_path(video),
                 corrupted_path(<< "v", "i", "d", "s", "/" >> \o video) >>
    /\ UNCHANGED << mainVars, guiVars >>

NextNaming ==
    \/ /\ fn = "none"
       /\ \E video \in VideoNames : CallNaming(video)
    \/ Return

SpecNaming == LabInit /\ [][NextNaming]_vars

(***************************************************************************)
(* interface.py: the interactive front end.  Click handlers run one at a   *)
(* time on the Tk main thread; each worker thread runs beside them, one    *)
(* step of the model per access to shared state or to the encoder.         *)
(***************************************************************************)
\* str.startswith(t)
str_startswith(s, t) == Len(s) >= Len(t) /\ SubSeq(s, 1, Len(t)) = t

\* s.split(c) for a one-character c
RECURSIVE str_split(_, _)
str_split(s, c) ==
    LET hits == {i \in 1..Len(s) : s[i] = c}
        i    == CHOOSE i \in hits : \A j \in hits : i <= j
    IN  IF hits = {} THEN << s >>
        ELSE << SubSeq(s, 1, i - 1) >> \o str_split(SubSeq(s, i + 1, Len(s)), c)

\* the loop of posixpath.normpath over the components of a path: empty
\* components and "." are dropped, ".." takes the last component kept away
\* (at the root of an absolute path it is dropped)
RECURSIVE norm_comps(_, _, _)
norm_comps(comps, kept, absolute) ==
    IF comps = << >> THEN kept
    ELSE LET c == Head(comps)
         IN  IF c = << >> \/ c = << "." >>
             THEN norm_comps(Tail(comps), kept, absolute)
             ELSE IF c # << ".", "." >>
                     \/ (~absolute /\ kept = << >>)
                     \/ (kept # << >> /\ kept[Len(kept)] = << ".", "." >>)
             THEN norm_comps(Tail(comps), Append(kept, c), absolute)
             ELSE IF kept # << >>
             THEN norm_comps(Tail(comps), SubSeq(kept, 1, Len(kept) - 1), absolute)
             ELSE norm_comps(Tail(comps), kept, absolute)

RECURSIVE join_comps(_)
join_comps(comps) ==
    IF comps = << >> THEN << >>
    ELSE IF Len(comps) = 1 THEN comps[1]
    ELSE comps[1] \o << "/" >> \o join_comps(Tail(comps))

\* os.path.abspath(p) for a process whose working directory is script_dir
\* (paths that start with two slashes are not among the inputs)
abspath(p) ==
    LET full == IF p # << >> /\ p[1] = "/" THEN p ELSE PathJoin(script_dir, p)
    IN  << "/" >> \o join_comps(norm_comps(str_split(full, "/"), << >>, TRUE))

\* get_input_path (lines 240-242)
get_input_path(video_name) ==
    PathJoin(PathJoin(script_dir, << "v", "i", "d", "s" >>), video_name)

\* mutant: the output path is not checked
validate_paths_input_only(in_path, out_path) ==
    LET input_abs == abspath(in_path)
        vids_dir  == abspath(PathJoin(script_dir, << "v", "i", "d", "s" >>))
    IN  IF ~str_startswith(input_abs, vids_dir \o << "/" >>)
        THEN << "Input path must be inside vids/" >>
        ELSE << >>

\* validate_paths (lines 249-261): << >> when it returns, the message of the
\* ValueError when it raises
validate_paths(in_path, out_path) ==
    LET input_abs  == abspath(in_path)
        output_abs == abspath(out_path)
        vids_dir   == abspath(PathJoin(script_dir, << "v", "i", "d", "s" >>))
        out_dir_abs == abspath(PathJoin(script_dir, << "o", "u", "t" >>))
    IN  IF ~str_startswith(input_abs, vids_dir \o << "/" >>)
        THEN << "Input path must be inside vids/" >>
        ELSE IF ~str_startswith(output_abs, out_dir_abs \o << "/" >>)
        THEN << "Output path must be inside out/" >>
        ELSE IF input_abs = output_abs
        THEN << "Input and output paths are identical; refusing to run." >>
        ELSE << >>

\* build_ffmpeg_command of interface.py (lines 263-290); params holds the
\* values of the nine Tk variables under the names of the batch tuple
interface_build_ffmpeg_command(in_path, out_path, params) ==
    LET x264_params   ==
               << "k", "e", "y", "i", "n", "t", "=" >>
               \o IntToStr(DictGet(params, "keyint")) \o << ":" >>
            \o << "k", "e", "y", "i", "n", "t", "_", "m", "i", "n", "=" >>
               \o IntToStr(DictGet(params, "keyint_min")) \o << ":" >>
            \o << "s", "c", "e", "n", "e", "c", "u", "t", "=" >>
               \o IntToStr(DictGet(params, "scenecut")) \o << ":" >>
            \o << "b", "f", "r", "a", "m", "e", "s", "=" >>
               \o IntToStr(DictGet(params, "bframes")) \o << ":" >>
            \o << "r", "e", "f", "=" >>
               \o IntToStr(DictGet(params, "ref")) \o << ":" >>
            \o << "o", "p", "e", "n", "_", "g", "o", "p", "=" >>
               \o IntToStr(DictGet(params, "open_gop")) \o << ":" >>
            \o << "d", "e", "b", "l", "o", "c", "k", "=" >>
               \o IntToStr(DictGet(params, "deblock")) \o << ":" >>
               \o IntToStr(DictGet(params, "deblock"))
        noise_filter  ==
               << "n", "o", "i", "s", "e", "=", "a", "m", "o", "u", "n", "t", "=" >>
               \o IntToStr(DictGet(params, "noise"))
               \o << "*", "n", "o", "t", "(", "k", "e", "y", ")" >>
    IN  << << "f", "f", "m", "p", "e", "g" >>,
           << "-", "y" >>,
           << "-", "i" >>,
           in_path,
           << "-", "c", ":", "v" >>,
           << "l", "i", "b", "x", "2", "6", "4" >>,
           << "-", "x", "2", "6", "4", "-", "p", "a", "r", "a", "m", "s" >>,
           x264_params,
           << "-", "c", "r", "f" >>,
           IntToStr(DictGet(params, "crf")),
           << "-", "b", "s", "f", ":", "v" >>,
           noise_filter,
           << "-", "p", "i", "x", "_", "f", "m", "t" >>,
           << "y", "u", "v", "4", "2", "0", "p" >>,
           out_path >>

\* the values the Tk variables start with (lines 172-180)
default_params ==
    << << "keyint", 10 >>, << "keyint_min", 10 >>, << "scenecut", 0 >>,
       << "bframes", 0 >>, << "ref", 1 >>, << "open_gop", 0 >>,
       << "crf", 18 >>, << "deblock", 0 >>, << "noise", 3000 >> >>

\* the two command builders called with the same paths and parameter values
CallBuildBoth(in, out, params) ==
    /\ fn = "none"
    /\ fn' = "build_ffmpeg_command, VideoCorruptionInterface.build_ffmpeg_command"
    /\ args' = << in, out, params >>
    /\ res' = << build_ffmpeg_command(in, out, params),
                 interface_build_ffmpeg_command(in, out, params) >>
    /\ UNCHANGED << mainVars, guiVars >>

NextBuildBoth ==
    \/ \E params \in BuildParams \cup {default_params}, io \in BuildPaths :
          CallBuildBoth(io[1], io[2], params)
    \/ Return

SpecBuildBoth == LabInit /\ [][NextBuildBoth]_vars

\* how many clicks on Preview and Direct Batch are followed
MaxClicks == 2

\* how many videos vids/ holds at most
MaxVideos == 2

VideoNamesListed ==
    << << "a", ".", "m", "p", "4" >>, << "b", ".", "m", "o", "v" >>,
       << "c", ".", "m", "k", "v" >>, << "d", ".", "a", "v", "i" >> >>

\* the exit statuses of the front end's encoder
FrontExitCodes == {0, 1}

\* the front end has come up (lines 154-197): the videos are listed, the
\* first one is selected; one of them may have been removed from vids/ since
FrontInit ==
    /\ MainIdle /\ runs = 1 /\ input_exists = TRUE /\ out_dir_exists = FALSE
    /\ manifest = << >> /\ fs_at_start = FileSystem(out_dir_exists, manifest)
    /\ LabIdle
    /\ is_processing = FALSE
    /\ \E n \in 0..Min(MaxVideos, Len(VideoNamesListed)) :
          videos = SubSeq(VideoNamesListed, 1, n)
    /\ selected_video = IF videos = << >> THEN << >> ELSE videos[1]
    /\ \E gone \in 0..Len(videos) :
          vids_files = {videos[k] : k \in 1..Len(videos) \ {gone}}
    /\ out_files = {}
    /\ workers = << >> /\ encoders = << >> /\ requests = << >>
    /\ front_log = << >>
    /\ video_pairs = << >> /\ current_pair_index = 0 /\ is_playing = FALSE
    /\ keys = << >>

\* worker w has an encoder invocation running or still to start: it stands
\* before or in subprocess.run, or its loop has a video left that exists
EncodingAhead(w) ==
    \/ workers[w].pc \in {"run", "encoding"}
    \/ /\ workers[w].pc \in {"next", "finally"}
       /\ \E k \in 1..Len(workers[w].todo) : workers[w].todo[k] \in vids_files

\* a started operation has not seen its last encoder invocation finish
OperationInProgress == \E w \in 1..Len(workers) : EncodingAhead(w)

\* a click, what the handler did with it, and whether an operation was in
\* progress when it came
Request(op, outcome) ==
    [op |-> op, outcome |-> outcome, busy |-> OperationInProgress]

Logged(kind, about) == [kind |-> kind, about |-> about]

\* the combo box: another listed video is chosen
SelectVideo(v) ==
    /\ Len(requests) < MaxClicks
    /\ v # selected_video
    /\ selected_video' = v
    /\ UNCHANGED << is_processing, videos, vids_files, out_files, workers,
                    encoders, requests, front_log >>
    /\ UNCHANGED << mainVars, labVars, viewVars >>

\* preview_video (lines 640-672)
preview_video ==
    /\ Len(requests) < MaxClicks
    /\ IF selected_video = << >>
       THEN /\ requests' = Append(requests, Request("preview", "no_selection"))
            /\ UNCHANGED << is_processing, workers, front_log >>
       ELSE IF is_processing
       THEN /\ requests' = Append(requests, Request("preview", "rejected"))
            /\ UNCHANGED << is_processing, workers, front_log >>
       ELSE IF selected_video \notin vids_files
       THEN /\ requests' = Append(requests, Request("preview", "not_found"))
            /\ UNCHANGED << is_processing, workers, front_log >>
       ELSE /\ requests' = Append(requests, Request("preview", "started"))
            /\ UNCHANGED front_log
            /\ is_processing' = TRUE
            /\ workers' = Append(workers,
                  [kind |-> "preview", pc |-> "run", video |-> selected_video,
                   in_path |-> get_input_path(selected_video),
                   out_path |-> get_output_path(selected_video),
                   todo |-> << >>])
    /\ UNCHANGED << videos, selected_video, vids_files, out_files, encoders >>
    /\ UNCHANGED << mainVars, labVars, viewVars >>

\* the outputs process_all_videos removes (lines 751-759)
existing_outputs ==
    {get_output_path(videos[k]) : k \in 1..Len(videos)} \cap out_files

\* direct_batch (lines 723-739) and, when the dialog is confirmed,
\* process_all_videos(overwrite=True) (lines 741-779)
direct_batch(response) ==
    /\ Len(requests) < MaxClicks
    /\ IF is_processing
       THEN /\ requests' = Append(requests, Request("direct_batch", "rejected"))
            /\ UNCHANGED << is_processing, workers, front_log, out_files >>
       ELSE IF ~response
       THEN /\ requests' = Append(requests, Request("direct_batch", "declined"))
            /\ UNCHANGED << is_processing, workers, front_log, out_files >>
       ELSE IF videos = << >>
       THEN /\ requests' = Append(requests, Request("direct_batch", "no_videos"))
            /\ UNCHANGED << is_processing, workers, front_log, out_files >>
       ELSE /\ requests' = Append(requests, Request("direct_batch", "started"))
            /\ is_processing' = TRUE
            /\ UNCHANGED front_log
            /\ out_files' = out_files \ existing_outputs
            /\ workers' = Append(workers,
                  [kind |-> "batch", pc |-> "next", video |-> << >>,
                   in_path |-> << >>, out_path |-> << >>, todo |-> videos])
    /\ UNCHANGED << videos, selected_video, vids_files, encoders >>
    /\ UNCHANGED << mainVars, labVars, viewVars >>

\* batch_thread (lines 762-775): the next video of the list, skipped when it
\* is missing; after the last one the batch is complete and the flag cleared
batch_thread_next(w) ==
    /\ w \in 1..Len(workers)
    /\ workers[w].kind = "batch" /\ workers[w].pc = "next"
    /\ IF workers[w].todo = << >>
       THEN /\ UNCHANGED front_log
            /\ is_processing' = FALSE
            /\ workers' = [workers EXCEPT ![w].pc = "done"]
       ELSE LET video_name == Head(workers[w].todo)
            IN  /\ is_processing' = is_processing
                /\ IF video_name \notin vids_files
                   THEN /\ front_log' = Append(front_log,
                                               Logged("skipping", video_name))
                        /\ workers' = [workers EXCEPT
                                          ![w].todo = Tail(@)]
                   ELSE /\ UNCHANGED front_log
                        /\ workers' = [workers EXCEPT
                                          ![w].todo = Tail(@),
                                          ![w].video = video_name,
                                          ![w].in_path =
                                              get_input_path(video_name),
                                          ![w].out_path =
                                              get_output_path(video_name),
                                          ![w].pc = "run"]
    /\ UNCHANGED << videos, selected_video, vids_files, out_files, encoders,
                    requests >>
    /\ UNCHANGED << mainVars, labVars, viewVars >>

\* process_video_thread, lines 676-682: the paths are validated; when
\* validate_paths raises the exception is logged, else the command is built
\* and the encoder started
process_video_thread_run(w) ==
    /\ w \in 1..Len(workers)
    /\ workers[w].pc = "run"
    /\ LET in_path  == workers[w].in_path
           out_path == workers[w].out_path
           raised   == validate_paths(in_path, out_path)
       IN  IF raised # << >>
           THEN /\ front_log' = Append(front_log,
                                       Logged("exception", raised[1]))
                /\ workers' = [workers EXCEPT ![w].pc = "finally"]
                /\ UNCHANGED encoders
           ELSE /\ UNCHANGED front_log
                /\ encoders' = Append(encoders,
                      [worker |-> w,
                       cmd |-> interface_build_ffmpeg_command(
                                   in_path, out_path, default_params)])
                /\ workers' = [workers EXCEPT ![w].pc = "encoding"]
    /\ UNCHANGED << is_processing, videos, selected_video, vids_files,
                    out_files, requests >>
    /\ UNCHANGED << mainVars, labVars, viewVars >>

\* lines 682-694: subprocess.run returns; the result is logged
process_video_thread_result(w, returncode) ==
    /\ w \in 1..Len(workers)
    /\ workers[w].pc = "encoding"
    /\ encoders' = SelectSeq(encoders, LAMBDA e : e.worker # w)
    /\ IF returncode = 0
       THEN /\ out_files' = out_files \cup {abspath(workers[w].out_path)}
            /\ UNCHANGED front_log
       ELSE /\ front_log' = Append(front_log, Logged("error", workers[w].video))
            /\ UNCHANGED out_files
    /\ workers' = [workers EXCEPT ![w].pc = "finally"]
    /\ UNCHANGED << is_processing, videos, selected_video, vids_files,
                    requests >>
    /\ UNCHANGED << mainVars, labVars, viewVars >>

\* process_video_thread without its finally clause: the flag is left alone
process_video_thread_no_finally(w) ==
    /\ w \in 1..Len(workers)
    /\ workers[w].pc = "finally"
    /\ workers' = [workers EXCEPT
                      ![w].pc = IF workers[w].kind = "batch" THEN "next"
                                ELSE "done"]
    /\ UNCHANGED << is_processing, videos, selected_video, vids_files,
                    out_files, encoders, requests, front_log >>
    /\ UNCHANGED << mainVars, labVars, viewVars >>

\* lines 697-698: finally: self.is_processing = False; a preview thread ends
\* here, the batch thread goes on with its loop
process_video_thread_finally(w) ==
    /\ w \in 1..Len(workers)
    /\ workers[w].pc = "finally"
    /\ is_processing' = FALSE
    /\ workers' = [workers EXCEPT
                      ![w].pc = IF workers[w].kind = "batch" THEN "next"
                                ELSE "done"]
    /\ UNCHANGED << videos, selected_video, vids_files, out_files, encoders,
                    requests, front_log >>
    /\ UNCHANGED << mainVars, labVars, viewVars >>

\* one step of worker w
WorkerStep(w) ==
    \/ batch_thread_next(w)
    \/ process_video_thread_run(w)
    \/ \E rc \in FrontExitCodes : process_video_thread_result(w, rc)
    \/ process_video_thread_finally(w)

NextFront ==
    \/ \E k \in 1..Len(videos) : SelectVideo(videos[k])
    \/ preview_video
    \/ \E response \in BOOLEAN : direct_batch(response)
    \/ \E w \in 1..MaxClicks : WorkerStep(w)

SpecFront == FrontInit /\ [][NextFront]_vars

(***************************************************************************)
(* process_video_thread called on its own, with any pair of paths          *)
(***************************************************************************)
vids_dir == PathJoin(script_dir, << "v", "i", "d", "s" >>)

interface_out_dir == PathJoin(script_dir, << "o", "u", "t" >>)

ClipName == << "a", ".", "m", "p", "4" >>

\* input paths: the original, the same written relative to the working
\* directory and by way of out/.., the directory vids/ itself, a sibling
\* directory whose name begins with vids, a way out of vids/ by .., a path
\* elsewhere
ThreadInputs ==
    { PathJoin(vids_dir, ClipName),
      << "v", "i", "d", "s", "/" >> \o ClipName,
      PathJoin(interface_out_dir, << ".", ".", "/", "v", "i", "d", "s", "/" >> \o ClipName),
      vids_dir,
      vids_dir \o << "X", "/" >> \o ClipName,
      PathJoin(vids_dir, << ".", ".", "/", "o", "u", "t", "/" >> \o ClipName),
      << "/", "e", "t", "c", "/" >> \o ClipName }

\* output paths: the front end's own, one written relative and one with a
\* "." in it, the directory out/ itself, a sibling directory whose name
\* begins with out, the original reached through out/.., the original
ThreadOutputs ==
    { get_output_path(ClipName),
      << "o", "u", "t", "/" >> \o ClipName,
      PathJoin(interface_out_dir, << ".", "/" >> \o ClipName),
      interface_out_dir,
      interface_out_dir \o << "X", "/" >> \o ClipName,
      PathJoin(interface_out_dir, << ".", ".", "/", "v", "i", "d", "s", "/" >> \o ClipName),
      PathJoin(vids_dir, ClipName) }

\* process_video_thread(input_path, output_path, video_name, True) has been
\* called by a thread; its caller has set the flag
ThreadInit ==
    /\ MainIdle /\ runs = 1 /\ input_exists = TRUE /\ out_dir_exists = FALSE
    /\ manifest = << >> /\ fs_at_start = FileSystem(out_dir_exists, manifest)
    /\ LabIdle
    /\ is_processing = TRUE
    /\ videos = << ClipName >> /\ selected_video = ClipName
    /\ vids_files = {ClipName} /\ out_files = {}
    /\ \E input \in ThreadInputs, output \in ThreadOutputs :
          workers = << [kind |-> "preview", pc |-> "run", video |-> ClipName,
                        in_path |-> input, out_path |-> output,
                        todo |-> << >>] >>
    /\ encoders = << >> /\ requests = << >> /\ front_log = << >>
    /\ video_pairs = << >> /\ current_pair_index = 0 /\ is_playing = FALSE
    /\ keys = << >>

NextThread ==
    \/ process_video_thread_run(1)
    \/ \E rc \in FrontExitCodes : process_video_thread_result(1, rc)
    \/ process_video_thread_finally(1)

SpecThread == ThreadInit /\ [][NextThread]_vars

(***************************************************************************)
(* view.py: the side-by-side viewer, from its key loop on                  *)
(***************************************************************************)
\* how many keys are pressed
MaxKeys == 3

\* how many originals vids/ holds at most
MaxPairs == 3

\* str.strip() (blanks only)
RECURSIVE str_strip(_)
str_strip(s) ==
    IF s # << >> /\ s[1] = " " THEN str_strip(Tail(s))
    ELSE IF s # << >> /\ s[Len(s)] = " "
    THEN str_strip(SubSeq(s, 1, Len(s) - 1))
    ELSE s

\* lines 38-52: one pair for each original, in sorted order, whose corrupted
\* file exists; corrupted holds the original paths for which it does
RECURSIVE pairs_of(_, _)
pairs_of(original_videos, corrupted) ==
    IF original_videos = << >> THEN << >>
    ELSE LET orig_path == Head(original_videos)
         IN  (IF orig_path \in corrupted
              THEN << [name      |-> splitext_root(basename(orig_path)),
                       original  |-> orig_path,
                       corrupted |-> corrupted_path(orig_path)] >>
              ELSE << >>)
             \o pairs_of(Tail(original_videos), corrupted)

\* find_pair_index (lines 67-76); video_arg is << >> when --video is absent
RECURSIVE first_pair_named(_, _, _)
first_pair_named(pairs, base, i) ==
    IF i >= Len(pairs) THEN 0
    ELSE IF pairs[i + 1].name = base THEN i
    ELSE first_pair_named(pairs, base, i + 1)

find_pair_index(pairs, video_arg) ==
    IF video_arg = << >> THEN 0
    ELSE LET base == str_strip(splitext_root(basename(video_arg[1])))
         IN  IF base = << >> THEN 0
             ELSE first_pair_named(pairs, base, 0)

\* mutant: the last pair has no next one
next_pair_index_unwrapped(pair_index, pairs_len) == pair_index + 1

\* line 201 and line 204
previous_pair_index(pair_index, pairs_len) == (pair_index - 1) % pairs_len

next_pair_index(pair_index, pairs_len) == (pair_index + 1) % pairs_len

\* the originals glob finds, sorted (lines 33-39)
OriginalVideos ==
    [k \in 1..Min(MaxPairs, Len(VideoNamesListed)) |->
        << "v", "i", "d", "s", "/" >> \o VideoNamesListed[k]]

\* values of --video: absent, file names, a path, a name with a blank before
\* the extension, a name no pair has
VideoArgs ==
    { << >>,
      << VideoNamesListed[1] >>,
      << VideoNamesListed[2] >>,
      << << "v", "i", "d", "s", "/" >> \o VideoNamesListed[3] >>,
      << << "b", " ", ".", "m", "o", "v" >> >>,
      << << "z", ".", "m", "p", "4" >> >> }

\* what cv2.waitKey returns: q, ESC, space, a, A, d, D, another key, none
ViewerKeys == {"q", "ESC", " ", "a", "A", "d", "D", "x", "none"}

\* the viewer has loaded its first pair (lines 30-150)
ViewInit ==
    /\ MainIdle /\ runs = 1 /\ input_exists = TRUE /\ out_dir_exists = FALSE
    /\ manifest = << >> /\ fs_at_start = FileSystem(out_dir_exists, manifest)
    /\ LabIdle
    /\ is_processing = FALSE /\ videos = << >> /\ selected_video = << >>
    /\ vids_files = {} /\ out_files = {}
    /\ workers = << >> /\ encoders = << >> /\ requests = << >>
    /\ front_log = << >>
    /\ \E corrupted \in SUBSET {OriginalVideos[k] : k \in 1..Len(OriginalVideos)} :
          /\ video_pairs = pairs_of(OriginalVideos, corrupted)
          /\ video_pairs # << >>
    /\ \E video_arg \in VideoArgs :
          current_pair_index = find_pair_index(video_pairs, video_arg)
    /\ is_playing \in BOOLEAN
    /\ keys = << >>

ViewerRunning ==
    IF keys = << >> THEN TRUE ELSE keys[Len(keys)].key \notin {"q", "ESC"}

\* one pass through the key handling of the loop (lines 193-206)
ViewKey(key) ==
    /\ ViewerRunning
    /\ Len(keys) < MaxKeys
    /\ current_pair_index' =
          IF key \in {"a", "A"}
          THEN previous_pair_index(current_pair_index, Len(video_pairs))
          ELSE IF key \in {"d", "D"}
          THEN next_pair_index(current_pair_index, Len(video_pairs))
          ELSE current_pair_index
    /\ is_playing' = IF key = " " THEN ~is_playing ELSE is_playing
    /\ keys' = Append(keys, [key  |-> key,
                             from |-> current_pair_index,
                             to   |-> current_pair_index'])
    /\ UNCHANGED video_pairs
    /\ UNCHANGED << mainVars, labVars, frontVars >>

NextView == \E key \in ViewerKeys : ViewKey(key)

SpecView == ViewInit /\ [][NextView]_vars

(***************************************************************************)
(* Claims about the functions                                              *)
(***************************************************************************)
\* t occurs in s as a contiguous run of characters
Contains(s, t) ==
    \E i \in 0..(Len(s) - Len(t)) : SubSeq(s, i + 1, i + Len(t)) = t

EndsWith(s, t) ==
    Len(s) >= Len(t) /\ SubSeq(s, Len(s) - Len(t) + 1, Len(s)) = t

Digits == {DigitChar[i] : i \in 1..Len(DigitChar)}

Letters == {"a", "b", "c", "d", "e", "f", "g", "h", "i", "j", "k", "l", "m",
            "n", "o", "p", "q", "r", "s", "t", "u", "v", "w", "x", "y", "z"}

\* the positions of the colons of s that follow a backslash, and of the others
EscapedColons(s) ==
    {i \in 1..Len(s) : s[i] = ":" /\ i > 1 /\ s[i - 1] = "\\"}

BareColons(s) ==
    {i \in 1..Len(s) : s[i] = ":" /\ (i = 1 \/ s[i - 1] # "\\")}

\* C1: the -x264-params bundle ends with deblock=<d>\:<d> for the tuple's
\* deblock d; the colon of that pair is the only one after a backslash, the
\* bare pair deblock=<d>:<d> does not occur, and the other colons are the six
\* bare separators before the deblock sub-parameter, each between the last
\* digit of a value and the first letter of the next key.
C1_DeblockColonEscaped ==
    fn = "build_ffmpeg_command" =>
        LET bundle == res[1][8]
            ds     == IntToStr(DictGet(args[3], "deblock"))
            key    == << "d", "e", "b", "l", "o", "c", "k", "=" >>
            pair   == key \o ds \o << "\\", ":" >> \o ds
        IN  /\ res[1][7] = << "-", "x", "2", "6", "4", "-",
                              "p", "a", "r", "a", "m", "s" >>
            /\ EndsWith(bundle, pair)
            /\ EscapedColons(bundle) = {Len(bundle) - Len(ds)}
            /\ ~Contains(bundle, key \o ds \o << ":" >> \o ds)
            /\ Cardinality(BareColons(bundle)) = 6
            /\ \A i \in BareColons(bundle) :
                  /\ i <= Len(bundle) - Len(pair)
                  /\ i > 1 /\ bundle[i - 1] \in Digits
                  /\ bundle[i + 1] \in Letters

\* deblock = -3 gives deblock=-3\:-3
C1_Witness ==
    /\ fn = "build_ffmpeg_command"
    /\ DictGet(args[3], "deblock") = 0 - 3
    /\ Contains(res[1][8], << "d", "e", "b", "l", "o", "c", "k", "=",
                              "-", "3", "\\", ":", "-", "3" >>)

\* the value a run of decimal digits denotes
DigitVal(c) == (CHOOSE i \in 1..Len(DigitChar) : DigitChar[i] = c) - 1

RECURSIVE ParseNat(_)
ParseNat(s) ==
    IF s = << >> THEN 0
    ELSE 10 * ParseNat(SubSeq(s, 1, Len(s) - 1)) + DigitVal(s[Len(s)])

\* << n >> when s is the decimal form of the integer n (an optional minus
\* sign, digits, no leading zero), << >> when s is no decimal form
ParseInt(s) ==
    LET neg == s # << >> /\ s[1] = "-"
        ds  == IF neg THEN SubSeq(s, 2, Len(s)) ELSE s
    IN  IF /\ ds # << >>
           /\ \A i \in 1..Len(ds) : ds[i] \in Digits
           /\ (Len(ds) > 1 => ds[1] # "0")
           /\ (neg => ds # << "0" >>)
        THEN << IF neg THEN 0 - ParseNat(ds) ELSE ParseNat(ds) >>
        ELSE << >>

\* s cut at its bare colons
RECURSIVE SplitBare(_)
SplitBare(s) ==
    IF BareColons(s) = {} THEN << s >>
    ELSE LET i == CHOOSE i \in BareColons(s) :
                     \A j \in BareColons(s) : j <= i
         IN  Append(SplitBare(SubSeq(s, 1, i - 1)), SubSeq(s, i + 1, Len(s)))

\* the part of s before its first "=" and the part after it
KeyOf(s) ==
    LET eqs == {i \in 1..Len(s) : s[i] = "="}
    IN  IF eqs = {} THEN s
        ELSE SubSeq(s, 1, (CHOOSE i \in eqs : \A j \in eqs : i <= j) - 1)

ValueOf(s) ==
    LET eqs == {i \in 1..Len(s) : s[i] = "="}
    IN  IF eqs = {} THEN << >>
        ELSE SubSeq(s, (CHOOSE i \in eqs : \A j \in eqs : i <= j) + 1, Len(s))

\* the keys of the bundle and the tuple fields they carry
BundleKeys ==
    << << "k", "e", "y", "i", "n", "t" >>,
       << "k", "e", "y", "i", "n", "t", "_", "m", "i", "n" >>,
       << "s", "c", "e", "n", "e", "c", "u", "t" >>,
       << "b", "f", "r", "a", "m", "e", "s" >>,
       << "r", "e", "f" >>,
       << "o", "p", "e", "n", "-", "g", "o", "p" >>,
       << "d", "e", "b", "l", "o", "c", "k" >> >>

BundleFields ==
    << "keyint", "keyint_min", "scenecut", "bframes", "ref", "open_gop",
       "deblock" >>

\* the fourteen elements of the list around the bundle: the fixed tokens, the
\* two paths, the decimal crf and the noise filter of the tuple
ListAroundBundle ==
    LET cmd    == res[1]
        params == args[3]
        prefix == << "n", "o", "i", "s", "e", "=", "a", "m", "o", "u", "n",
                     "t", "=" >>
        suffix == << "*", "n", "o", "t", "(", "k", "e", "y", ")" >>
        amount == SubSeq(cmd[12], Len(prefix) + 1, Len(cmd[12]) - Len(suffix))
    IN  /\ Len(cmd) = 15
        /\ cmd[1] = << "f", "f", "m", "p", "e", "g" >>
        /\ cmd[2] = << "-", "y" >>
        /\ cmd[3] = << "-", "i" >>
        /\ cmd[4] = args[1]
        /\ cmd[5] = << "-", "c", ":", "v" >>
        /\ cmd[6] = << "l", "i", "b", "x", "2", "6", "4" >>
        /\ cmd[7] = << "-", "x", "2", "6", "4", "-", "p", "a", "r", "a", "m",
                       "s" >>
        /\ cmd[9] = << "-", "c", "r", "f" >>
        /\ ParseInt(cmd[10]) = << DictGet(params, "crf") >>
        /\ cmd[11] = << "-", "b", "s", "f", ":", "v" >>
        /\ Len(cmd[12]) > Len(prefix) + Len(suffix)
        /\ SubSeq(cmd[12], 1, Len(prefix)) = prefix
        /\ EndsWith(cmd[12], suffix)
        /\ ParseInt(amount) = << DictGet(params, "noise") >>
        /\ cmd[13] = << "-", "p", "i", "x", "_", "f", "m", "t" >>
        /\ cmd[14] = << "y", "u", "v", "4", "2", "0", "p" >>
        /\ cmd[15] = args[2]

\* C12 as the spec states it: the list has the fifteen elements named, and
\* the bundle, cut at its separating colons, is seven key=value
\* sub-parameters in the order keyint, keyint_min, scenecut, bframes, ref,
\* open-gop, deblock, the value of each being the decimal form of the
\* tuple's field.  The deblock value is not: it is the pair <d>\:<d>.
C12_EveryValueDecimal ==
    fn = "build_ffmpeg_command" =>
        LET parts == SplitBare(res[1][8])
        IN  /\ ListAroundBundle
            /\ Len(parts) = 7
            /\ \A k \in 1..7 :
                  /\ KeyOf(parts[k]) = BundleKeys[k]
                  /\ ParseInt(ValueOf(parts[k]))
                        = << DictGet(args[3], BundleFields[k]) >>

\* C12, amended: the same list and bundle, the values of the first six
\* sub-parameters being the decimal forms of their fields and the value of
\* deblock the decimal form of the deblock field twice, joined by an escaped
\* colon.
C12_CommandList ==
    fn = "build_ffmpeg_command" =>
        LET parts == SplitBare(res[1][8])
            dv    == ValueOf(parts[7])
            cut   == CHOOSE i \in EscapedColons(dv) : TRUE
        IN  /\ ListAroundBundle
            /\ Len(parts) = 7
            /\ \A k \in 1..7 : KeyOf(parts[k]) = BundleKeys[k]
            /\ \A k \in 1..6 :
                  ParseInt(ValueOf(parts[k]))
                     = << DictGet(args[3], BundleFields[k]) >>
            /\ Cardinality(EscapedColons(dv)) = 1
            /\ ParseInt(SubSeq(dv, 1, cut - 2))
                  = << DictGet(args[3], "deblock") >>
            /\ ParseInt(SubSeq(dv, cut + 1, Len(dv)))
                  = << DictGet(args[3], "deblock") >>

\* a tuple with a negative deblock built for the relative paths
C12_Witness ==
    /\ fn = "build_ffmpeg_command"
    /\ args[1] = << "a", " ", "b", ".", "m", "p", "4" >>
    /\ DictGet(args[3], "deblock") = 0 - 11
    /\ Len(res[1]) = 15
    /\ Len(SplitBare(res[1][8])) = 7
    /\ ValueOf(SplitBare(res[1][8])[7])
          = << "-", "1", "1", "\\", ":", "-", "1", "1" >>

\* the index a path of the output directory names: the digits between
\* <out_dir>/bball_perm_ and .mp4, at least three of them, zeros in front
\* only to fill three; << >> when the path has no such form
NamedIndex(path) ==
    LET prefix == out_dir \o << "/", "b", "b", "a", "l", "l", "_", "p", "e",
                                "r", "m", "_" >>
        suffix == << ".", "m", "p", "4" >>
        ds     == SubSeq(path, Len(prefix) + 1, Len(path) - Len(suffix))
    IN  IF /\ Len(path) >= Len(prefix) + 3 + Len(suffix)
           /\ SubSeq(path, 1, Len(prefix)) = prefix
           /\ EndsWith(path, suffix)
           /\ \A k \in 1..Len(ds) : ds[k] \in Digits
           /\ (Len(ds) > 3 => ds[1] # "0")
        THEN << ParseNat(ds) >>
        ELSE << >>

\* C14: the output path of sample i is <out_dir>/bball_perm_<i>.mp4 with i
\* in decimal, zero-padded to three digits and longer when i needs more
\* (index 1 gives bball_perm_001.mp4); two distinct indices of a batch get
\* distinct paths, below and above 1000.
C14_OutputNamesDistinct ==
    fn = "output_name" =>
        /\ NamedIndex(res[1]) = << args[1] >>
        /\ NamedIndex(res[2]) = << args[2] >>
        /\ (args[1] = 1) =>
              res[1] = out_dir \o << "/", "b", "b", "a", "l", "l", "_", "p",
                                     "e", "r", "m", "_", "0", "0", "1", ".",
                                     "m", "p", "4" >>
        /\ (args[1] # args[2]) => (res[1] # res[2])

\* samples 1 and 1001: the second name has four digits
C14_Witness ==
    /\ fn = "output_name"
    /\ args = << 1, 1001 >>
    /\ Len(res[2]) = Len(res[1]) + 1
    /\ res[1] # res[2]

\* C5: in every sampled tuple 1 <= keyint_min <= keyint, keyint_min being the
\* index's base-3 value mapped into [1, keyint] for the keyint of that tuple.
C5_KeyintMinWithinKeyint ==
    fn = "sample_params" =>
        LET keyint     == DictGet(res[1], "keyint")
            keyint_min == DictGet(res[1], "keyint_min")
        IN  /\ 1 <= keyint_min
            /\ keyint_min <= keyint
            /\ keyint_min = scale_int(halton_value(args[1], primes[2]), 1, keyint)

\* a tuple whose keyint_min is as large as its keyint allows
C5_Witness ==
    /\ fn = "sample_params"
    /\ DictGet(res[1], "keyint") > 1
    /\ DictGet(res[1], "keyint_min") = DictGet(res[1], "keyint")

\* C6: for low <= high and 0 <= v < 1, low <= scale_int(v, low, high) <= high;
\* when low = high the result is low whatever v is.
C6_ScaleIntWithinRange ==
    fn = "scale_int" =>
        LET v    == args[1]
            low  == args[2]
            high == args[3]
        IN  /\ (low <= high /\ FLessThanOne(v)) =>
                   (low <= res[1] /\ res[1] <= high)
            /\ low = high => res[1] = low

\* the largest v below 1 mapped onto high, in a range of more than one value
C6_Witness ==
    /\ fn = "scale_int"
    /\ args[1] = FPredOne
    /\ args[2] < args[3]
    /\ res[1] = args[3]

\* a < b for naturals given by their limbs
RECURSIVE BigLess(_, _)
BigLess(a, b) ==
    IF Len(a) # Len(b) THEN Len(a) < Len(b)
    ELSE IF a = << >> THEN FALSE
    ELSE IF a[Len(a)] # b[Len(b)] THEN a[Len(a)] < b[Len(b)]
    ELSE BigLess(BigNorm(SubSeq(a, 1, Len(a) - 1)),
                 BigNorm(SubSeq(b, 1, Len(b) - 1)))

\* x <= y for floats x, y >= 0 (their mantissas have MantBits bits)
FLessEq(x, y) ==
    \/ FIsZero(x)
    \/ /\ ~FIsZero(y)
       /\ \/ x.e < y.e
          \/ x.e = y.e /\ ~BigLess(y.m, x.m)

\* floor(v * n) in exact arithmetic, for a float 0 <= v < 1 and an int n > 0
ExactFloorMul(v, n) ==
    IF FIsZero(v) THEN 0
    ELSE BigToInt(BigShiftRight(BigMulSmall(v.m, n), 0 - v.e))

\* C17 as the spec states it: for low < high and 0 <= v < 1 the result is
\* low + floor(v * (high - low + 1)), the product and its floor taken
\* exactly, and v1 <= v2 gives scale_int(v1) <= scale_int(v2).
C17_ExactFloor ==
    fn = "scale_int_pair" =>
        LET v1   == args[1]
            v2   == args[2]
            low  == args[3]
            high == args[4]
        IN  (low < high /\ FLessThanOne(v1) /\ FLessThanOne(v2)) =>
                /\ res[1] = low + ExactFloorMul(v1, high - low + 1)
                /\ FLessEq(v1, v2) => res[1] <= res[2]

\* C17, amended: for low < high and 0 <= v < 1 the result is low plus the
\* floor of the product as a float, which is the floor of the exact product
\* or one more; and v1 <= v2 gives scale_int(v1) <= scale_int(v2).
C17_FloatFloorMonotonic ==
    fn = "scale_int_pair" =>
        LET v1   == args[1]
            v2   == args[2]
            low  == args[3]
            high == args[4]
            n    == high - low + 1
        IN  (low < high /\ FLessThanOne(v1) /\ FLessThanOne(v2)) =>
                /\ res[1] = low + FTrunc(FRound(BigMulSmall(v1.m, n), FALSE, v1.e))
                /\ res[1] >= low + ExactFloorMul(v1, n)
                /\ res[1] <= low + ExactFloorMul(v1, n) + 1
                /\ FLessEq(v1, v2) => res[1] <= res[2]
                /\ FLessEq(v2, v1) => res[2] <= res[1]

\* the float nearest to 1/3 and the float of 1/2 mapped into [0, 2]: the
\* first gives 1, where the exact product is below 1
C17_Witness ==
    /\ fn = "scale_int_pair"
    /\ args[1] = halton_value(BigFromInt(1), 3)
    /\ args[2] = halton_value(BigFromInt(1), 2)
    /\ args[3] = 0 /\ args[4] = 2
    /\ ExactFloorMul(args[1], 3) = 0
    /\ res = << 1, 1 >>

\* C18: scale_int clamps at the upper bound: for low <= high and a value
\* that has reached 1 (v = 1.0) as for every 0 <= v < 1, the result is at
\* most high, never high + 1.
C18_ClampsAtUpperBound ==
    fn = "scale_int" =>
        LET v    == args[1]
            low  == args[2]
            high == args[3]
        IN  (low <= high /\ (FLessThanOne(v) \/ v = FFromInt(1))) =>
                (low <= res[1] /\ res[1] <= high)

\* a - b for naturals a >= b given by their limbs
RECURSIVE BigSubBorrow(_, _, _)
BigSubBorrow(a, b, borrow) ==
    IF a = << >> THEN << >>
    ELSE LET y == IF b = << >> THEN 0 ELSE b[1]
             t == a[1] - y - borrow
         IN  << IF t < 0 THEN t + Limb ELSE t >>
             \o BigSubBorrow(Tail(a), IF b = << >> THEN b ELSE Tail(b),
                             IF t < 0 THEN 1 ELSE 0)

BigAbsDiff(a, b) ==
    IF BigLess(a, b) THEN BigNorm(BigSubBorrow(b, a, 0))
    ELSE BigNorm(BigSubBorrow(a, b, 0))

\* the radical inverse of an index as an exact fraction num / den: st holds
\* the digits still to take (i), the digits taken so far read in reverse
\* (num) and base^(number of digits taken) (den)
RECURSIVE RadicalLoop(_, _)
RadicalLoop(st, base) ==
    IF st.i = << >> THEN st
    ELSE LET d == BigDivSmall(st.i, base)
         IN  RadicalLoop([i   |-> d.q,
                          num |-> BigNorm(BigMulAdd(st.num, base, d.r)),
                          den |-> BigMulSmall(st.den, base)], base)

RadicalInverse(index, base) ==
    RadicalLoop([i |-> index, num |-> << >>, den |-> << 1 >>], base)

\* a float h as the fraction FloatSide(h) / 2^FloatScale(h)
FloatSide(h) ==
    IF FIsZero(h) THEN << >>
    ELSE IF h.e >= 0 THEN BigShiftLeft(h.m, h.e)
    ELSE h.m

FloatScale(h) == IF FIsZero(h) \/ h.e >= 0 THEN 0 ELSE 0 - h.e

RECURSIVE BigMul(_, _)
BigMul(a, b) ==
    IF b = << >> THEN << >>
    ELSE BigAdd(BigMulSmall(a, b[1]), << 0 >> \o BigMul(a, Tail(b)))

\* |h - q| * q.den * 2^FloatScale(h) for a fraction q = num / den
ErrorScaled(h, q) ==
    BigAbsDiff(BigMul(FloatSide(h), q.den),
               BigShiftLeft(q.num, FloatScale(h)))

\* C19 as the spec states it: halton_value(index, base) equals the radical
\* inverse of index in the base, the sum of d_j / base^(j+1) over the
\* base-b digits d_j of index.
C19_ExactRadicalInverse ==
    fn = "halton_value" =>
        ErrorScaled(res[1], RadicalInverse(args[1], args[2])) = << >>

\* C19, amended: halton_value(index, base) is the radical inverse of index
\* up to the rounding of its float operations: it differs from the exact sum
\* by at most 2^-47, and equals it when the base is 2 and the index has at
\* most 53 binary digits.
C19_RoundedRadicalInverse ==
    fn = "halton_value" =>
        LET q   == RadicalInverse(args[1], args[2])
            err == ErrorScaled(res[1], q)
        IN  /\ ~BigLess(BigShiftLeft(q.den, FloatScale(res[1])),
                        BigShiftLeft(err, 47))
            /\ (args[2] = 2 /\ BigBitLen(args[1]) <= MantBits) => err = << >>

\* index 1 in base 3: the float nearest to 1/3, not 1/3
C19_Witness ==
    /\ fn = "halton_value"
    /\ args = << << 1 >>, 3 >>
    /\ RadicalInverse(args[1], args[2]).num = << 1 >>
    /\ RadicalInverse(args[1], args[2]).den = << 3 >>
    /\ ErrorScaled(res[1], RadicalInverse(args[1], args[2])) # << >>

\* the calls of the block lab
InBlock == fn = "halton_value, halton_value"

BlockSize == Power(args[1], args[2])

\* v * n is a whole number, for a float 0 <= v < 1
IsWholeMul(v, n) ==
    BigShiftLeft(BigFromInt(ExactFloorMul(v, n)), FloatScale(v))
        = BigMulSmall(FloatSide(v), n)

\* C25 as the spec states it: the values of the indices 0 .. b^k - 1 are
\* pairwise distinct, each is a multiple of 1 / b^k, and no two of them lie
\* in the same interval [j / b^k, (j + 1) / b^k).
C25_ExactSpread ==
    InBlock =>
        /\ args[3] # args[4] => res[1] # res[2]
        /\ IsWholeMul(res[1], BlockSize)
        /\ ExactFloorMul(res[1], BlockSize) \in 0..(BlockSize - 1)
        /\ args[3] # args[4] =>
              ExactFloorMul(res[1], BlockSize) # ExactFloorMul(res[2], BlockSize)

\* the multiple of 1 / b^k that the radical inverse of index i is
BlockMultiple(i) ==
    LET q == RadicalInverse(BigFromInt(i), args[1])
    IN  BigToInt(q.num) * (BlockSize \div BigToInt(q.den))

\* C25, amended: the values of the indices 0 .. b^k - 1 are pairwise
\* distinct; each lies within 2^-47 of a multiple of 1 / b^k of its own, the
\* radical inverse of its index, and different indices have different
\* multiples; in base 2 each value is its multiple, so that each interval
\* receives exactly one value.
C25_RoundedSpread ==
    InBlock =>
        LET q   == RadicalInverse(BigFromInt(args[3]), args[1])
            err == ErrorScaled(res[1], q)
        IN  /\ args[3] # args[4] => res[1] # res[2]
            /\ BlockSize % BigToInt(q.den) = 0
            /\ BlockMultiple(args[3]) \in 0..(BlockSize - 1)
            /\ args[3] # args[4] => BlockMultiple(args[3]) # BlockMultiple(args[4])
            /\ ~BigLess(BigShiftLeft(q.den, FloatScale(res[1])),
                        BigShiftLeft(err, 47))
            /\ args[1] = 2 =>
                  /\ err = << >>
                  /\ ExactFloorMul(res[1], BlockSize) = BlockMultiple(args[3])

\* indices 1 and 3 of the first 9 values of base 3: near 1/3 and 1/9, neither
\* of them a multiple of 1/9, both in intervals that another value is in too
C25_Witness ==
    /\ InBlock
    /\ args = << 3, 2, 1, 3 >>
    /\ res[1] # res[2]
    /\ BlockMultiple(1) = 3 /\ BlockMultiple(3) = 1
    /\ ~IsWholeMul(res[1], 9) /\ ~IsWholeMul(res[2], 9)
    /\ ExactFloorMul(res[1], 9) = 2 /\ ExactFloorMul(res[2], 9) = 0

\* C20: for every video file name the single-run script accepts, the file
\* it writes, the file the front end writes and the file the viewer looks
\* up have the same name, <base>_corrupted.mp4 with base the file name
\* without its final extension, also when the name has more than one dot.
C20_SingleRunNamesAgree ==
    (fn = "single_run_naming" /\ mod_accepts(args[1])) =>
        LET video == args[1]
            dots  == {i \in 1..Len(video) : video[i] = "."}
            last  == CHOOSE i \in dots : \A j \in dots : j <= i
            name  == SubSeq(video, 1, last - 1)
                     \o << "_", "c", "o", "r", "r", "u", "p", "t", "e", "d",
                           ".", "m", "p", "4" >>
        IN  /\ res[1] = << "o", "u", "t", "/" >> \o name
            /\ res[2] = script_dir \o << "/", "o", "u", "t", "/" >> \o name
            /\ res[3] = << "o", "u", "t", "/" >> \o name

\* C7: for every base >= 2 and index >= 0, halton_value returns h with
\* 0 <= h < 1, and h = 0 exactly when the index is 0.
C7_HaltonInUnitInterval ==
    fn = "halton_value" =>
        /\ FLessThanOne(res[1])
        /\ FIsZero(res[1]) <=> (args[1] = << >>)

\* the nine fields of a tuple, in order, each with its range
TupleRanges ==
    << << "keyint", ranges.keyint >>,
       << "keyint_min", << 1, ranges.keyint[2] >> >>,
       << "scenecut", ranges.scenecut >>,
       << "bframes", ranges.bframes >>,
       << "ref", ranges.ref >>,
       << "open_gop", ranges.open_gop >>,
       << "crf", ranges.crf >>,
       << "deblock", ranges.deblock >>,
       << "noise", ranges.noise >> >>

\* C8: for every index >= 1 the sampler yields a tuple with all nine fields,
\* each inside its configured range, keyint_min inside [1, keyint].
C8_SamplerWithinRanges ==
    (fn = "sample_params" /\ args[1] # << >>) =>
        /\ DictKeys(res[1]) = DictKeys(TupleRanges)
        /\ \A j \in 1..Len(TupleRanges) :
              /\ TupleRanges[j][2][1] <= res[1][j][2]
              /\ res[1][j][2] <= TupleRanges[j][2][2]
        /\ DictGet(res[1], "keyint_min") <= DictGet(res[1], "keyint")

(***************************************************************************)
(* Claims about the interactive front end                                  *)
(***************************************************************************)

\* C21: from the start of a preview or a batch until its last encoder
\* invocation has finished is_processing is True, every click on Preview or
\* Direct Batch made in that interval was rejected, and at most one encoder
\* invocation of the front end is active
C21_OneOperationAtATime ==
    /\ OperationInProgress => is_processing
    /\ \A k \in 1..Len(requests) :
          requests[k].busy => requests[k].outcome = "rejected"
    /\ Len(encoders) <= 1

\* C22: whenever a preview or a batch has set is_processing to True, the flag
\* is False again later, given that the worker threads run and every encoder
\* invocation terminates
\* Finite-run form: while the flag is True a worker thread is alive; a live
\* thread always has a step to take; every step of a thread lowers the count
\* of steps the threads have left; and the step that ends a thread leaves the
\* flag False.
Alive(w) == workers[w].pc # "done"

\* the steps worker w has left at most: four per video of the loop, one to
\* leave the loop
WorkerStepsLeft(w) ==
    LET after == IF workers[w].kind = "batch"
                 THEN 4 * Len(workers[w].todo) + 1 ELSE 0
    IN  CASE workers[w].pc = "done"     -> 0
          [] workers[w].pc = "next"     -> after
          [] workers[w].pc = "finally"  -> 1 + after
          [] workers[w].pc = "encoding" -> 2 + after
          [] workers[w].pc = "run"      -> 3 + after

RECURSIVE FrontStepsLeftUpTo(_)
FrontStepsLeftUpTo(n) ==
    IF n = 0 THEN 0 ELSE WorkerStepsLeft(n) + FrontStepsLeftUpTo(n - 1)

FrontStepsLeft == FrontStepsLeftUpTo(Len(workers))

C22_FlagReturnsToFalse ==
    /\ [](is_processing => \E w \in 1..Len(workers) : Alive(w))
    /\ [](\A w \in 1..Len(workers) :
             /\ workers[w].pc \in {"next", "run", "encoding", "finally", "done"}
             /\ workers[w].pc = "next" => workers[w].kind = "batch")
    /\ [][(\E w \in 1..Len(workers) : workers'[w] # workers[w])
            => /\ Len(workers') = Len(workers)
               /\ FrontStepsLeft' < FrontStepsLeft]_vars
    /\ [][\A w \in 1..Len(workers) :
             (Alive(w) /\ workers'[w].pc = "done") => ~is_processing']_vars

\* a worker thread has ended, the flag is False, and on the way an encoder
\* failed, a listed video was skipped as missing and another was encoded
C22_Witness ==
    /\ ~is_processing
    /\ \E w \in 1..Len(workers) : workers[w].pc = "done"
    /\ \E k \in 1..Len(front_log) : front_log[k].kind = "error"
    /\ \E k \in 1..Len(front_log) : front_log[k].kind = "skipping"
    /\ out_files # {}

\* path p names something below directory dir: its components begin with
\* those of dir and go on
StrictlyInside(p, dir) ==
    LET pcomps == str_split(abspath(p), "/")
        dcomps == str_split(abspath(dir), "/")
    IN  Len(pcomps) > Len(dcomps) /\ SubSeq(pcomps, 1, Len(dcomps)) = dcomps

Acceptable(in_path, out_path) ==
    /\ StrictlyInside(in_path, vids_dir)
    /\ StrictlyInside(out_path, interface_out_dir)
    /\ abspath(in_path) # abspath(out_path)

ValueErrors ==
    { "Input path must be inside vids/", "Output path must be inside out/",
      "Input and output paths are identical; refusing to run." }

\* C24: an encoder invocation of the front end has an input strictly inside
\* vids/, an output strictly inside out/ and different from the input, so
\* its output is no file of vids/; for any other pair of paths
\* process_video_thread logs the ValueError of validate_paths and goes to its
\* end without starting an encoder
C24_EncoderOnlyForValidatedPaths ==
    /\ [](\A k \in 1..Len(encoders) :
             LET cmd == encoders[k].cmd
             IN  /\ Acceptable(cmd[4], cmd[Len(cmd)])
                 /\ ~StrictlyInside(cmd[Len(cmd)], vids_dir)
                 /\ cmd[4] = workers[encoders[k].worker].in_path
                 /\ cmd[Len(cmd)] = workers[encoders[k].worker].out_path)
    /\ [][\A w \in 1..Len(workers) :
             (/\ workers[w].pc = "run" /\ workers'[w].pc # "run"
              /\ ~Acceptable(workers[w].in_path, workers[w].out_path))
             => /\ Len(front_log') = Len(front_log) + 1
                /\ front_log'[Len(front_log')].kind = "exception"
                /\ front_log'[Len(front_log')].about \in ValueErrors
                /\ encoders' = encoders
                /\ workers'[w].pc = "finally"]_vars

\* the thread was given the original as its output, written by way of
\* out/.., and has logged the error without starting an encoder
C24_Witness ==
    /\ Len(workers) = 1 /\ workers[1].pc = "finally"
    /\ workers[1].in_path = PathJoin(vids_dir, ClipName)
    /\ workers[1].out_path # PathJoin(vids_dir, ClipName)
    /\ abspath(workers[1].out_path) = PathJoin(vids_dir, ClipName)
    /\ encoders = << >>
    /\ front_log = << Logged("exception", "Output path must be inside out/") >>

\* C23: for the same paths and parameter values the front end's
\* build_ffmpeg_command returns the argument list the batch builder returns
C23_BuildersAgree ==
    Len(res) = 2 => res[1] = res[2]

(***************************************************************************)
(* Claims about the viewer                                                 *)
(***************************************************************************)
PreviousKeys == {"a", "A"}

NextKeys == {"d", "D"}

\* C26: the index of the pair shown is within 0 .. len(video_pairs) - 1 at
\* the start and after every key; A at the first pair leads to the last and
\* D at the last to the first; and D followed at once by A, or A by D, leads
\* back to the pair shown before.
C26_NavigationWraps ==
    LET pairs_len == Len(video_pairs)
    IN  /\ current_pair_index \in 0..(pairs_len - 1)
        /\ \A k \in 1..Len(keys) :
              /\ keys[k].to \in 0..(pairs_len - 1)
              /\ keys[k].key \in PreviousKeys =>
                    keys[k].to = IF keys[k].from = 0 THEN pairs_len - 1
                                 ELSE keys[k].from - 1
              /\ keys[k].key \in NextKeys =>
                    keys[k].to = IF keys[k].from = pairs_len - 1 THEN 0
                                 ELSE keys[k].from + 1
              /\ keys[k].key \notin PreviousKeys \cup NextKeys =>
                    keys[k].to = keys[k].from
        /\ \A k \in 1..(Len(keys) - 1) :
              (\/ keys[k].key \in NextKeys /\ keys[k + 1].key \in PreviousKeys
               \/ keys[k].key \in PreviousKeys /\ keys[k + 1].key \in NextKeys)
              => keys[k + 1].to = keys[k].from

\* three pairs, started at the last one by --video: D wraps to the first
\* pair and A wraps back to the last
C26_Witness ==
    /\ Len(video_pairs) = 3
    /\ Len(keys) = 2
    /\ keys[1] = [key |-> "D", from |-> 2, to |-> 0]
    /\ keys[2] = [key |-> "a", from |-> 0, to |-> 2]
    /\ current_pair_index = 2

====
